---- MODULE Spec2Model ----
(***************************************************************************)
(* A model of the S-5 multi-region cache warmer: sitemap discovery, the    *)
(* region rotator, the per-region pagination cursor, the regional warming  *)
(* executor (Durable Object) and the history aggregation.                  *)
(*                                                                         *)
(* A JavaScript string the code takes apart or builds (a number's text, a  *)
(* CF-RAY header) is a sequence of one-character strings; a string it only *)
(* compares (a region label, a URL, a cache status) is a TLA+ string.  The *)
(* key-value store holds texts, or Null for an absent key.                 *)
(***************************************************************************)
EXTENDS Integers, Sequences, FiniteSets, TLC

\* ------------------------------------------------------------------ bounds

\* Regions of REGION_ORDER taken into the rotation.
RegionCount == 2
\* Page URLs a sitemap world may list.
MaxUrls == 3
\* URLs in the slice of one warming request.
MaxSlice == 2
\* Values of Date.now() at which summaries are stored.
MaxClock == 2
\* Summaries in the store when the history is read.
MaxStored == 2
\* Calls of storeResults in a sequence of warming runs.
MaxRuns == 2

\* ----------------------------------------------------------------- helpers

Range(s) == {s[i] : i \in 1..Len(s)}

Min(a, b) == IF a <= b THEN a ELSE b

Max(a, b) == IF a >= b THEN a ELSE b

\* ----------------------------------------------------- JavaScript numbers

\* The value parseInt gives for a string with no leading number.
NaN == -999

Null == <<"null">>

Digits == <<"0", "1", "2", "3", "4", "5", "6", "7", "8", "9">>

IsDigit(c) == \E d \in 1..10 : Digits[d] = c

DigitVal(c) == (CHOOSE d \in 1..10 : Digits[d] = c) - 1

RECURSIVE NatToStr(_)
NatToStr(n) ==
  IF n < 10 THEN <<Digits[n + 1]>>
  ELSE NatToStr(n \div 10) \o <<Digits[(n % 10) + 1]>>

\* String(n) and n.toString() of an integer.
String(n) ==
  IF n = NaN THEN <<"N", "a", "N">>
  ELSE IF n < 0 THEN <<"-">> \o NatToStr(-n)
  ELSE NatToStr(n)

RECURSIVE DigitPrefix(_)
DigitPrefix(s) ==
  IF s # <<>> /\ IsDigit(Head(s)) THEN <<Head(s)>> \o DigitPrefix(Tail(s))
  ELSE <<>>

RECURSIVE DigitsVal(_, _)
DigitsVal(s, acc) ==
  IF s = <<>> THEN acc ELSE DigitsVal(Tail(s), acc * 10 + DigitVal(Head(s)))

\* parseInt(s, 10): an optional sign, then the longest run of digits.
parseInt(s) ==
  LET neg == s # <<>> /\ Head(s) = "-"
      body == IF neg THEN Tail(s) ELSE s
      ds == DigitPrefix(body)
  IN IF ds = <<>> THEN NaN
     ELSE IF neg THEN -DigitsVal(ds, 0) ELSE DigitsVal(ds, 0)

\* a % n of JavaScript: the sign of the dividend.
JsMod(a, n) ==
  IF a = NaN THEN NaN
  ELSE IF a >= 0 THEN a % n ELSE -((-a) % n)

JsAdd(a, b) == IF a = NaN \/ b = NaN THEN NaN ELSE a + b

MathMin(a, b) == IF a = NaN \/ b = NaN THEN NaN ELSE Min(a, b)

\* a >= b of JavaScript: false when either side is NaN.
JsGe(a, b) == a # NaN /\ b # NaN /\ a >= b

\* The relative index of Array.prototype.slice: NaN is 0, a negative index
\* counts from the end, and the result is clamped to 0 .. len.
SliceIndex(i, len) ==
  IF i = NaN THEN 0
  ELSE IF i < 0 THEN Max(len + i, 0)
  ELSE Min(i, len)

\* arr.slice(start, end): zero-based, end exclusive.
JsSlice(arr, start, end) ==
  LET s == SliceIndex(start, Len(arr))
      e == SliceIndex(end, Len(arr))
  IN IF s >= e THEN <<>> ELSE SubSeq(arr, s + 1, e)

\* arr[i] of a zero-based array: undefined outside it.
At(arr, i) ==
  IF i # NaN /\ 0 <= i /\ i < Len(arr) THEN arr[i + 1] ELSE "undefined"

\* ----------------------------------------------------------- configuration

SITEMAPS == <<"sitemap_index.xml", "page-sitemap.xml">>

\* The page URLs the sitemap documents of the model may list.
PAGE_URLS_ALL == <<"/a", "/b", "/c", "/d", "/e", "/f">>

PageUrls == SubSeq(PAGE_URLS_ALL, 1, MaxUrls)

REGION_ORDER_ALL ==
  <<"Western North America", "Eastern North America", "South America",
    "Western Europe", "Eastern Europe", "Middle East", "Africa",
    "Asia-Pacific", "Oceania">>

REGION_ORDER == SubSeq(REGION_ORDER_ALL, 1, RegionCount)

\* Object.keys(REGIONS): the same labels, in the same order.
REGIONS_KEYS == REGION_ORDER

Undefined == "undefined"

DO_REGION_HINTS_KEYS == Range(REGION_ORDER)

\* -------------------------------------------------------- sitemap discovery

\* A sitemap document as fetch sees it: fetch throws, answers non-OK, or
\* answers OK with a text that holds '<sitemapindex' or not, and whose
\* <loc> elements are locs, in document order.
ThrowDoc == [fetch |-> "throw", index |-> FALSE, locs |-> <<>>]

NotOkDoc == [fetch |-> "notok", index |-> FALSE, locs |-> <<>>]

Leaf(locs) == [fetch |-> "ok", index |-> FALSE, locs |-> locs]

Index(locs) == [fetch |-> "ok", index |-> TRUE, locs |-> locs]

Fetch(d, url) == IF url \in DOMAIN d THEN d[url] ELSE ThrowDoc

extractUrls(response) == response.locs

Threw == [threw |-> TRUE, urls |-> <<>>]

Returned(urls) == [threw |-> FALSE, urls |-> urls]

RECURSIVE parseSitemap(_, _)
RECURSIVE parseNested(_, _, _)
RECURSIVE parseNestedStop(_, _, _)
\* A loop that ends at the first nested sitemap that fails.
parseNestedStop(d, sitemapUrls, allUrls) ==
  IF sitemapUrls = <<>> THEN allUrls
  ELSE LET nested == parseSitemap(d, Head(sitemapUrls))
       IN IF nested.threw THEN allUrls
          ELSE parseNestedStop(d, Tail(sitemapUrls), allUrls \o nested.urls)

\* The loop of parseSitemap over the nested sitemaps of an index.
parseNested(d, sitemapUrls, allUrls) ==
  IF sitemapUrls = <<>> THEN allUrls
  ELSE LET nested == parseSitemap(d, Head(sitemapUrls))
       IN parseNested(d, Tail(sitemapUrls),
                      IF nested.threw THEN allUrls ELSE allUrls \o nested.urls)

parseSitemap(d, sitemapUrl) ==
  LET response == Fetch(d, sitemapUrl)
  IN IF response.fetch = "throw" THEN Threw
     ELSE IF response.fetch = "notok" THEN Threw
     ELSE IF response.index
          THEN Returned(parseNested(d, extractUrls(response), <<>>))
          ELSE Returned(extractUrls(response))

\* An add that keeps a value the collection already holds.
SetAddAllKeep(set, urls) == set \o urls

\* Set.add over an insertion-ordered Set.
RECURSIVE SetAddAll(_, _)
SetAddAll(set, urls) ==
  IF urls = <<>> THEN set
  ELSE SetAddAll(IF Head(urls) \in Range(set) THEN set ELSE Append(set, Head(urls)),
                 Tail(urls))

RECURSIVE getAllUrlsFrom(_, _, _)
getAllUrlsFrom(d, sources, allUrls) ==
  IF sources = <<>> THEN allUrls
  ELSE LET r == parseSitemap(d, Head(sources))
       IN getAllUrlsFrom(d, Tail(sources),
                         IF r.threw THEN allUrls ELSE SetAddAll(allUrls, r.urls))

getAllUrls(d) == getAllUrlsFrom(d, SITEMAPS, <<>>)

\* ------------------------------------------------------------------- state

VARIABLES
  kvIndex,      \* KV last_region_index: a string, or Null
  kvProgress,   \* KV progress_<region>: region -> a string, or Null
  docs,         \* the sitemap documents the origin serves now
  pageSize,     \* parseInt(env.MAX_URLS_PER_RUN)
  track,        \* which history the specification records
  run,          \* history: the locals of the invocation that just ended
  gnr,          \* history: the last getNextRegion call or reset request
  rot,          \* history: the getNextRegion calls since the window began
  watch,        \* the region whose pagination cycle is recorded
  cyc,          \* history: the slices handed over in the cycle of watch
  req,          \* the body of the POST /warm the Durable Object is serving
  warm,         \* the Durable Object's position in handleWarm and its locals
  kvResults,    \* KV results_<region>_<timestamp>: key -> stored summary
  kvLatest,     \* KV latest_<region>: region -> stored summary, or NoSummary
  disc,         \* the outcome of the last getAllUrls call
  hist,         \* the outcome of the last getHistoricalData call
  err,          \* history: the fatal-error handling of the last scheduled run
  stat,         \* the outcome of the last getStatus call
  now,          \* Date.now()
  stored,       \* history: the runs storeResults has stored, by region
  walk,         \* getAllUrls in progress: its loop, its call stack, its fetches
  proc,         \* the scheduled invocations in progress, each with its locals
  cover,        \* history: the URLs warmed for watch since its offset was 0
  pace          \* handleWarm's loop in time: requests in flight and the timer

orchVars ==
  <<kvIndex, kvProgress, docs, pageSize, track, run, gnr, rot, watch, cyc>>

doVars == <<req, warm>>

storeVars == <<kvResults, kvLatest>>

stepVars == <<walk, proc, cover, pace>>

vars ==
  <<orchVars, doVars, storeVars, disc, hist, err, stat, now, stored, stepVars>>

\* ------------------------------------------------------------ region rotator

regionKeys == IF Len(REGION_ORDER) > 0 THEN REGION_ORDER ELSE REGIONS_KEYS

GnrFaults == {"none", "get", "put"}

\* A rotation step that skips a region.
nextIndexSkip(lastIndex, n) == JsMod(JsAdd(lastIndex, 2), n)

\* A rotation step that does not wrap.
nextIndexNoWrap(lastIndex, n) == JsAdd(lastIndex, 1)

\* nextIndex = (lastIndex + 1) % regionKeys.length
nextIndexOf(lastIndex, n) == JsMod(JsAdd(lastIndex, 1), n)

\* A catch block that lets the error escape.
gnrCatchRethrow(kv) == [raised |-> TRUE, region |-> Undefined, index |-> kv]

\* The catch block of getNextRegion: the first region, and no write.
gnrCatch(kv) == [raised |-> FALSE, region |-> regionKeys[1], index |-> kv]

\* getNextRegion(env) on a store whose last_region_index is kv; fault names
\* the KV operation that throws. index is last_region_index afterwards.
getNextRegion(kv, fault) ==
  IF Len(regionKeys) = 0
  THEN [raised |-> TRUE, region |-> Undefined, index |-> kv]
  ELSE IF fault = "get" THEN gnrCatch(kv)
  ELSE LET lastIndex == IF kv # Null THEN parseInt(kv) ELSE -1
           nextIndex == nextIndexOf(lastIndex, Len(regionKeys))
           nextRegion == At(regionKeys, nextIndex)
       IN IF fault = "put" THEN gnrCatch(kv)
          ELSE [raised |-> FALSE, region |-> nextRegion,
                index |-> String(nextIndex)]

\* A reset that writes the index of the first region.
resetRegionZero(kv, fails) ==
  IF fails THEN [ok |-> FALSE, index |-> kv]
  ELSE [ok |-> TRUE, index |-> String(0)]

\* /reset-region: put('last_region_index', '-1'); a put that throws gives a
\* 500 response and writes nothing.
resetRegion(kv, fails) ==
  IF fails THEN [ok |-> FALSE, index |-> kv]
  ELSE [ok |-> TRUE, index |-> String(-1)]

\* ------------------------------------------------------- pagination cursor

ProgressKeys == Range(regionKeys) \cup {Undefined}

\* await env.CACHE_WARMER_KV.get(progressKey) || '0'
OrZero(v) == IF v = Null \/ v = <<>> THEN String(0) ELSE v

\* A slice that begins one URL late.
nextSliceLate(progressStr, allUrls, maxUrls) ==
  LET lastIndex == parseInt(OrZero(progressStr))
      startIndex == lastIndex + 1
      endIndex == MathMin(JsAdd(startIndex, maxUrls), Len(allUrls))
      urlsToWarm == JsSlice(allUrls, startIndex, endIndex)
      newIndex == IF JsGe(endIndex, Len(allUrls)) THEN 0 ELSE endIndex
  IN [lastIndex |-> lastIndex, endIndex |-> endIndex,
      urlsToWarm |-> urlsToWarm, newIndex |-> newIndex]

\* The slice arithmetic of scheduled: lastIndex, endIndex, urlsToWarm, newIndex.
nextSlice(progressStr, allUrls, maxUrls) ==
  LET lastIndex == parseInt(OrZero(progressStr))
      startIndex == lastIndex
      endIndex == MathMin(JsAdd(startIndex, maxUrls), Len(allUrls))
      urlsToWarm == JsSlice(allUrls, startIndex, endIndex)
      newIndex == IF JsGe(endIndex, Len(allUrls)) THEN 0 ELSE endIndex
  IN [lastIndex |-> lastIndex, endIndex |-> endIndex,
      urlsToWarm |-> urlsToWarm, newIndex |-> newIndex]

\* ------------------------------------------------------------ the handlers

\* What goes wrong after getNextRegion in one invocation: the read of the
\* offset throws, the dispatch to the Durable Object throws, the Durable
\* Object answers non-OK, or the write of the new offset throws.
RunFaults == {"none", "progressGet", "dispatch", "doError", "progressPut"}

NoRun ==
  [handler |-> "none", testMode |-> FALSE, region |-> Undefined, total |-> 0, read |-> FALSE,
   lastIndex |-> 0, endIndex |-> 0, urlsToWarm |-> <<>>, handed |-> FALSE,
   newIndex |-> 0, wrote |-> FALSE, raised |-> FALSE, error |-> "none"]

\* The locals of scheduled(event, env, ctx) at its end, g being what
\* getNextRegion returned and allUrls what getAllUrls returned.
scheduledRun(g, allUrls, progress, maxUrls, f) ==
  LET region == g.region
      sl == nextSlice(progress[region], allUrls, maxUrls)
      hint == region \in DO_REGION_HINTS_KEYS
      base == [NoRun EXCEPT !.handler = "scheduled", !.region = region,
                            !.total = Len(allUrls)]
  IN IF g.raised THEN [base EXCEPT !.raised = TRUE, !.error = "rotation"]
     ELSE IF f = "progressGet"
     THEN [base EXCEPT !.raised = TRUE, !.error = "progressGet"]
     ELSE LET readRun == [base EXCEPT !.read = TRUE,
                            !.lastIndex = sl.lastIndex,
                            !.endIndex = sl.endIndex,
                            !.urlsToWarm = sl.urlsToWarm]
          IN IF ~hint \/ f = "dispatch"
             THEN [readRun EXCEPT !.raised = TRUE, !.error = "dispatch"]
             ELSE IF f = "doError"
             THEN [readRun EXCEPT !.handed = TRUE, !.raised = TRUE,
                                  !.error = "doError"]
             ELSE IF f = "progressPut"
             THEN [readRun EXCEPT !.handed = TRUE, !.newIndex = sl.newIndex,
                                  !.raised = TRUE, !.error = "progressPut"]
             ELSE [readRun EXCEPT !.handed = TRUE, !.newIndex = sl.newIndex,
                                  !.wrote = TRUE]

\* The number of URLs /trigger warms in test mode.
TestUrlCount == 5

\* The locals of the /trigger handler at its end: test mode warms the first
\* 5 URLs, full mode the first MAX_URLS_PER_RUN; a failure is a 500 response.
triggerRun(g, allUrls, maxUrls, testMode, f) ==
  LET region == g.region
      urlCount == IF testMode THEN TestUrlCount ELSE maxUrls
      urlsToWarm == JsSlice(allUrls, 0, urlCount)
      hint == region \in DO_REGION_HINTS_KEYS
      base == [NoRun EXCEPT !.handler = "trigger", !.testMode = testMode,
                            !.region = region,
                            !.total = Len(allUrls), !.urlsToWarm = urlsToWarm]
  IN IF g.raised THEN [base EXCEPT !.raised = TRUE, !.error = "rotation"]
     ELSE IF ~hint \/ f = "dispatch"
     THEN [base EXCEPT !.raised = TRUE, !.error = "dispatch"]
     ELSE IF f = "doError"
     THEN [base EXCEPT !.handed = TRUE, !.raised = TRUE, !.error = "doError"]
     ELSE [base EXCEPT !.handed = TRUE]

\* ------------------------------------------------------ history variables

NoGnr ==
  [op |-> "none", ok |-> FALSE, region |-> Undefined, fault |-> "none",
   before |-> Null, after |-> Null, raised |-> FALSE, afterReset |-> FALSE,
   resetBefore |-> Null]

\* The record of a getNextRegion call: what it returned, the cursor before
\* and after it, and whether it is the first call after a reset that succeeded.
GnrCall(g, kv, fault) ==
  [op |-> "next", ok |-> fault = "none" /\ ~g.raised, region |-> g.region,
   fault |-> fault, before |-> kv, after |-> g.index, raised |-> g.raised,
   afterReset |-> gnr.op = "reset" /\ gnr.ok,
   resetBefore |-> IF gnr.op = "reset" /\ gnr.ok THEN gnr.before ELSE Null]

GnrReset(r, kv) ==
  [NoGnr EXCEPT !.op = "reset", !.ok = r.ok, !.before = kv, !.after = r.index]

\* The window of getNextRegion calls: it restarts after RegionCount + 1
\* calls and after a reset.
RotAfter(w, e) ==
  IF Len(w) = Len(regionKeys) + 1 THEN <<e>> ELSE Append(w, e)

NoCycle == [clean |-> FALSE, handed |-> <<>>, wrapped |-> FALSE]

\* The cycle of region w after the run rn. A scheduled run for w that reads
\* offset 0 begins a cycle; the cycle is clean while every scheduled run for
\* w succeeds and the sitemaps stay as they are.
CycAfter(c, w, rn) ==
  IF rn.handler # "scheduled" \/ rn.region # w THEN c
  ELSE LET prior == IF rn.lastIndex = 0
                    THEN [clean |-> TRUE, handed |-> <<>>, wrapped |-> FALSE]
                    ELSE c
       IN IF rn.read /\ rn.wrote /\ prior.clean
          THEN [prior EXCEPT !.handed = prior.handed \o rn.urlsToWarm,
                             !.wrapped = (rn.newIndex = 0)]
          ELSE NoCycle

\* ------------------------------------------------------- the environment

\* The origin's sitemaps: an index over two leaf sitemaps that between them
\* list urls (the first leaf is also a configured source).
World(urls) ==
  [u \in {"sitemap_index.xml", "page-sitemap.xml", "product-sitemap.xml"} |->
     CASE u = "sitemap_index.xml" ->
            Index(<<"page-sitemap.xml", "product-sitemap.xml">>)
       [] u = "page-sitemap.xml" -> Leaf(SubSeq(urls, 1, Min(1, Len(urls))))
       [] OTHER -> Leaf(urls)]

\* The origin is down: every fetch throws.
DownWorld ==
  [u \in {"sitemap_index.xml", "page-sitemap.xml", "product-sitemap.xml"} |-> ThrowDoc]

FullWorld == World(PageUrls)

ShortWorld == World(SubSeq(PageUrls, 1, 1))

SchedWorlds == {FullWorld, ShortWorld, DownWorld}

\* The catalog of each world of the environment, discovered once.
Catalogs == [d \in SchedWorlds |-> getAllUrls(d)]

\* The page sizes (MAX_URLS_PER_RUN) a deployment is configured with.
PageSizes == {1, 2}

\* ------------------------------------------- numbers with two decimals

ZeroRate == <<"0", ".", "0", "0">>

\* The text of h hundredths with two decimals.
Fixed2(h) ==
  NatToStr(h \div 100) \o <<".", Digits[((h \div 10) % 10) + 1], Digits[(h % 10) + 1]>>

\* (a / b).toFixed(2), for a >= 0 and b > 0: the quotient rounded to the
\* nearest hundredth.  When the quotient lies midway between two hundredths
\* the double that stands for it may lie on either side: roundUp tells which.
toFixed2(a, b, roundUp) ==
  LET q == (a * 100) \div b
      rem == (a * 100) % b
  IN IF 2 * rem > b \/ (2 * rem = b /\ roundUp) THEN Fixed2(q + 1) ELSE Fixed2(q)

\* parseFloat(s), in hundredths: digits, then an optional point and digits.
parseFloat(s) ==
  LET ip == DigitPrefix(s)
      rest == SubSeq(s, Len(ip) + 1, Len(s))
      fp == IF rest # <<>> /\ Head(rest) = "." THEN DigitPrefix(Tail(rest)) ELSE <<>>
      tenths == IF Len(fp) >= 1 THEN DigitVal(fp[1]) ELSE 0
      hundredths == IF Len(fp) >= 2 THEN DigitVal(fp[2]) ELSE 0
  IN IF ip = <<>> THEN NaN
     ELSE DigitsVal(ip, 0) * 100 + tenths * 10 + hundredths

\* ----------------------------------------- the regional executor (warmer-do)

UNKNOWN == <<"U", "N", "K", "N", "O", "W", "N">>

Code(a, b, c) == <<a, b, c>>

REGIONS_ALL ==
  <<Code("S", "F", "O"), Code("I", "A", "D"), Code("G", "R", "U"),
    Code("A", "M", "S"), Code("W", "A", "W"), Code("D", "X", "B"),
    Code("J", "N", "B"), Code("S", "I", "N"), Code("S", "Y", "D")>>

RegionNo(r) == CHOOSE i \in 1..Len(REGION_ORDER_ALL) : REGION_ORDER_ALL[i] = r

\* REGIONS[region]: the representative colo of a region.
REGIONS == [r \in Range(REGION_ORDER) |-> REGIONS_ALL[RegionNo(r)]]

REGION_COLOS_ALL ==
  << {Code("S","F","O"), Code("L","A","X"), Code("S","E","A"), Code("S","J","C"),
      Code("D","E","N"), Code("P","H","X"), Code("L","A","S"), Code("Y","V","R"),
      Code("Y","Y","C"), Code("S","L","C"), Code("P","D","X")},
     {Code("I","A","D"), Code("J","F","K"), Code("E","W","R"), Code("Y","Y","Z"),
      Code("Y","U","L"), Code("A","T","L"), Code("M","I","A"), Code("B","O","S"),
      Code("O","R","D"), Code("D","F","W"), Code("C","L","T"), Code("D","T","W")},
     {Code("G","R","U"), Code("G","I","G"), Code("E","Z","E"), Code("S","C","L"),
      Code("L","I","M"), Code("B","O","G"), Code("U","I","O"), Code("M","V","D")},
     {Code("A","M","S"), Code("L","H","R"), Code("F","R","A"), Code("C","D","G"),
      Code("M","A","D"), Code("B","R","U"), Code("D","U","S"), Code("H","A","M"),
      Code("C","P","H"), Code("B","C","N"), Code("Z","R","H")},
     {Code("W","A","W"), Code("P","R","G"), Code("B","U","D"), Code("O","T","P"),
      Code("V","I","E"), Code("R","I","X"), Code("V","N","O"), Code("T","L","L"),
      Code("B","E","G"), Code("S","O","F")},
     {Code("D","X","B"), Code("D","O","H"), Code("B","A","H"), Code("K","W","I"),
      Code("A","M","M"), Code("M","C","T"), Code("R","U","H"), Code("J","E","D")},
     {Code("J","N","B"), Code("C","P","T"), Code("N","B","O"), Code("C","A","I"),
      Code("C","M","N"), Code("L","O","S"), Code("A","C","C"), Code("D","A","R"),
      Code("T","U","N")},
     {Code("S","I","N"), Code("H","K","G"), Code("K","U","L"), Code("B","K","K"),
      Code("N","R","T"), Code("K","I","X"), Code("I","C","N"), Code("T","P","E"),
      Code("M","N","L"), Code("C","G","K")},
     {Code("S","Y","D"), Code("M","E","L"), Code("B","N","E"), Code("A","K","L"),
      Code("P","E","R"), Code("A","D","L"), Code("C","B","R")} >>

\* REGION_COLOS[regionName] || []
regionColosOf(regionName) ==
  IF regionName \in Range(REGION_ORDER_ALL)
  THEN REGION_COLOS_ALL[RegionNo(regionName)]
  ELSE {}

\* s.includes(c)
Includes(s, c) == \E i \in 1..Len(s) : s[i] = c

\* s.split(c).pop(): what follows the last c of s.
SplitPop(s, c) ==
  LET k == CHOOSE i \in 1..Len(s) : s[i] = c /\ \A j \in (i + 1)..Len(s) : s[j] # c
  IN SubSeq(s, k + 1, Len(s))

\* response.headers.get(name) || 'UNKNOWN', for a header the code only
\* compares (a label; '' when the header is absent or empty).
OrUnknownLabel(v) == IF v = "" THEN "UNKNOWN" ELSE v

\* The same for a header the code takes apart (<<>> when absent or empty).
OrUnknown(v) == IF v = <<>> THEN UNKNOWN ELSE v

\* const results = { ... } at the start of handleWarm.
NewResults(totalUrls) ==
  [success |-> 0, failures |-> 0,
   cacheHit |-> 0, cacheMiss |-> 0, cacheExpired |-> 0, cacheOther |-> 0,
   coloMatched |-> 0, coloMismatched |-> 0,
   regionMatched |-> 0, regionMismatched |-> 0,
   hitRate |-> ZeroRate, coloMatchRate |-> ZeroRate, regionMatchRate |-> ZeroRate,
   coloBreakdown |-> [c \in {} |-> 0],
   urls |-> <<>>,
   totalUrls |-> totalUrls]

\* A switch without its default branch.
tallyCacheNoDefault(results, cacheStatus) ==
  CASE cacheStatus = "HIT" -> [results EXCEPT !.cacheHit = @ + 1]
    [] cacheStatus = "MISS" -> [results EXCEPT !.cacheMiss = @ + 1]
    [] cacheStatus = "EXPIRED" -> [results EXCEPT !.cacheExpired = @ + 1]
    [] OTHER -> results

\* switch (cacheStatus) { ... }
tallyCache(results, cacheStatus) ==
  CASE cacheStatus = "HIT" -> [results EXCEPT !.cacheHit = @ + 1]
    [] cacheStatus = "MISS" -> [results EXCEPT !.cacheMiss = @ + 1]
    [] cacheStatus = "EXPIRED" -> [results EXCEPT !.cacheExpired = @ + 1]
    [] OTHER -> [results EXCEPT !.cacheOther = @ + 1]

\* coloBreakdown[colo] = (coloBreakdown[colo] || 0) + 1
Bump(breakdown, colo) ==
  [c \in DOMAIN breakdown \cup {colo} |->
     IF c = colo
     THEN (IF c \in DOMAIN breakdown THEN breakdown[c] ELSE 0) + 1
     ELSE breakdown[c]]

\* The body of the try block, from the response to results.success++.
warmResponse(results, urlToWarm, response, targetColo, regionColos) ==
  LET cacheStatus == OrUnknownLabel(response.cacheStatus)
      cfRay == OrUnknown(response.cfRay)
      actualColo == IF Includes(cfRay, "-") THEN SplitPop(cfRay, "-") ELSE UNKNOWN
      exactColoMatch == actualColo = targetColo
      regionalMatch == actualColo # UNKNOWN /\ actualColo \in regionColos
      r1 == tallyCache(results, cacheStatus)
      r2 == IF actualColo # UNKNOWN
            THEN [r1 EXCEPT
                    !.coloBreakdown = Bump(@, actualColo),
                    !.coloMatched = IF exactColoMatch THEN @ + 1 ELSE @,
                    !.coloMismatched = IF exactColoMatch THEN @ ELSE @ + 1]
            ELSE r1
      r3 == IF regionalMatch
            THEN [r2 EXCEPT !.regionMatched = @ + 1]
            ELSE [r2 EXCEPT !.regionMismatched = @ + 1]
  IN [r3 EXCEPT
        !.urls = Append(@, [url |-> urlToWarm,
                            status |-> response.status,
                            cacheStatus |-> cacheStatus,
                            cfRay |-> cfRay,
                            targetColo |-> targetColo,
                            actualColo |-> actualColo,
                            coloMatch |-> exactColoMatch,
                            regionalMatch |-> regionalMatch]),
        !.success = @ + 1]

\* catch (error) { results.failures++; results.urls.push({ url, error }) }
warmCatch(results, urlToWarm) ==
  [results EXCEPT !.failures = @ + 1,
                  !.urls = Append(@, [url |-> urlToWarm, error |-> "error"])]

\* One pass of the loop of handleWarm: fetch throws, or the response is
\* tallied and its body drained; a drain that throws lands in the catch too.
warmUrl(results, urlToWarm, o, targetColo, regionColos) ==
  IF o.fetch = "throw" THEN warmCatch(results, urlToWarm)
  ELSE LET r == warmResponse(results, urlToWarm, o, targetColo, regionColos)
       IN IF o.drain = "throw" THEN warmCatch(r, urlToWarm) ELSE r

\* A catch that lets the exception of a fetch leave the loop.
afterUrlRethrow(o) == IF o.fetch = "throw" THEN "aborted" ELSE "loop"

\* Where handleWarm stands after one URL: the catch block swallows what the
\* try block throws, and the loop goes on after the rate-limit wait.
afterUrl(o) == "loop"

\* A rate that is computed whatever its denominator.
rateUnguarded(num, den, roundUp) ==
  IF den # 0 THEN toFixed2(num * 100, den, roundUp) ELSE String(NaN)

\* den ? ((num / den) * 100).toFixed(2) : '0.00'
rate(num, den, roundUp) ==
  IF den # 0 THEN toFixed2(num * 100, den, roundUp) ELSE ZeroRate

\* The rates of handleWarm, after the loop.
withRates(results, roundUp) ==
  LET totalCached == results.cacheHit + results.cacheExpired
      coloChecks == results.coloMatched + results.coloMismatched
      regionChecks == results.regionMatched + results.regionMismatched
  IN [results EXCEPT
        !.hitRate = rate(totalCached, results.success, roundUp),
        !.coloMatchRate = rate(results.coloMatched, coloChecks, roundUp),
        !.regionMatchRate = rate(results.regionMatched, regionChecks, roundUp)]

\* ------------------------------------------------------------------ storage

\* The summary storeResults writes.  The store keeps it as the value
\* JSON.parse gives back for the text JSON.stringify made of it: the same
\* fields with the same numbers and strings.
summaryOf(region, results, timestamp) ==
  [region |-> region,
   timestamp |-> timestamp,
   success |-> results.success,
   failures |-> results.failures,
   cacheHit |-> results.cacheHit,
   cacheMiss |-> results.cacheMiss,
   cacheExpired |-> results.cacheExpired,
   cacheOther |-> results.cacheOther,
   hitRate |-> IF results.hitRate = <<>> THEN ZeroRate ELSE results.hitRate,
   coloMatched |-> results.coloMatched,
   coloMismatched |-> results.coloMismatched,
   coloMatchRate |-> IF results.coloMatchRate = <<>> THEN ZeroRate
                     ELSE results.coloMatchRate,
   coloBreakdown |-> results.coloBreakdown,
   regionMatched |-> results.regionMatched,
   regionMismatched |-> results.regionMismatched,
   regionMatchRate |-> IF results.regionMatchRate = <<>> THEN ZeroRate
                       ELSE results.regionMatchRate,
   totalUrls |-> results.totalUrls]

\* What stands for null where a summary is expected: the value of a get of
\* an absent latest_<region> key, and the stats of a null snapshot.
NoSummary == [null |-> TRUE]

\* KV.put(key, value)
kvPut(kv, key, value) ==
  [k \in DOMAIN kv \cup {key} |-> IF k = key THEN value ELSE kv[k]]

StoreFaults == {"none", "results", "latest"}

\* A storeResults that keeps the exception of a put to itself.
storeResultsQuiet(results, latest, region, res, timestamp, fault) ==
  [threw |-> FALSE,
   results |-> IF fault = "results" THEN results
               ELSE kvPut(results, <<region, timestamp>>,
                          summaryOf(region, res, timestamp)),
   latest |-> IF fault = "none"
              THEN kvPut(latest, region, summaryOf(region, res, timestamp))
              ELSE latest]

\* storeResults: the key results_<region>_<timestamp> is <<region, timestamp>>;
\* fault names the put that throws.
storeResults(results, latest, region, res, timestamp, fault) ==
  LET summary == summaryOf(region, res, timestamp)
  IN IF fault = "results"
     THEN [threw |-> TRUE, results |-> results, latest |-> latest]
     ELSE [threw |-> fault = "latest",
           results |-> kvPut(results, <<region, timestamp>>, summary),
           latest |-> IF fault = "latest" THEN latest
                      ELSE kvPut(latest, region, summary)]

\* KV.list({ prefix: 'results_<reg>_', limit }): the keys of the region in
\* name order (timestamps have the same number of digits), limit at most.
RECURSIVE InNameOrder(_)
InNameOrder(ks) ==
  IF ks = {} THEN <<>>
  ELSE LET k == CHOOSE x \in ks : \A o \in ks : x[2] <= o[2]
       IN <<k>> \o InNameOrder(ks \ {k})

kvList(kv, reg, limit) ==
  LET names == InNameOrder({k \in DOMAIN kv : k[1] = reg})
  IN SubSeq(names, 1, Min(limit, Len(names)))

\* The loop of getHistoricalData over the keys of a region: a get that
\* throws or gives null, or a value that does not parse, adds nothing.
RECURSIVE historyOfKeys(_, _, _, _)
historyOfKeys(kv, names, getFails, allResults) ==
  IF names = <<>> THEN allResults
  ELSE historyOfKeys(kv, Tail(names), getFails,
                     IF Head(names) \in getFails THEN allResults
                     ELSE Append(allResults, kv[Head(names)]))

\* The loop of getHistoricalData over the regions: a list that throws adds
\* nothing.
RECURSIVE historyOfRegions(_, _, _, _, _, _)
historyOfRegions(kv, targetRegions, limit, listFails, getFails, allResults) ==
  IF targetRegions = <<>> THEN allResults
  ELSE LET reg == Head(targetRegions)
       IN historyOfRegions(kv, Tail(targetRegions), limit, listFails, getFails,
            IF reg \in listFails THEN allResults
            ELSE historyOfKeys(kv, kvList(kv, reg, limit), getFails, allResults))

\* A history that is left in the order of its listing.
sortKeepOrder(s) == s

\* allResults.sort((a, b) => (b.timestamp || 0) - (a.timestamp || 0)): a
\* stable sort, newest first.
RECURSIVE sortNewestFirst(_)
sortNewestFirst(s) ==
  IF s = <<>> THEN <<>>
  ELSE LET sorted == sortNewestFirst(SubSeq(s, 1, Len(s) - 1))
           r == s[Len(s)]
           k == Cardinality({i \in 1..Len(sorted) : sorted[i].timestamp >= r.timestamp})
       IN SubSeq(sorted, 1, k) \o <<r>> \o SubSeq(sorted, k + 1, Len(sorted))

\* A sum that leaves the first result out.
RECURSIVE reduceSumTail(_, _)
reduceSumTail(allResults, field) ==
  IF Len(allResults) <= 1 THEN 0
  ELSE allResults[Len(allResults)][field]
       + reduceSumTail(SubSeq(allResults, 1, Len(allResults) - 1), field)

\* allResults.reduce((s, r) => s + (r.field || 0), 0)
RECURSIVE reduceSum(_, _)
reduceSum(allResults, field) ==
  IF allResults = <<>> THEN 0
  ELSE allResults[1][field] + reduceSum(Tail(allResults), field)

\* allResults.reduce((s, r) => s + (parseFloat(r.hitRate || '0') || 0), 0),
\* in hundredths.
RECURSIVE reduceHitRates(_)
reduceHitRates(allResults) ==
  IF allResults = <<>> THEN 0
  ELSE LET text == IF allResults[1].hitRate = <<>> THEN <<"0">>
                   ELSE allResults[1].hitRate
           v == parseFloat(text)
       IN (IF v = NaN THEN 0 ELSE v) + reduceHitRates(Tail(allResults))

NoRegion == ""

\* getHistoricalData(env, region, limit)
getHistoricalData(kv, region, limit, listFails, getFails, roundUp) ==
  LET targetRegions == IF region # NoRegion THEN <<region>> ELSE REGIONS_KEYS
      allResults ==
        sortNewestFirst(
          historyOfRegions(kv, targetRegions, limit, listFails, getFails, <<>>))
  IN [totals |->
        [totalExecutions |-> Len(allResults),
         totalSuccess |-> reduceSum(allResults, "success"),
         totalFailures |-> reduceSum(allResults, "failures"),
         totalCacheHit |-> reduceSum(allResults, "cacheHit"),
         totalCacheMiss |-> reduceSum(allResults, "cacheMiss"),
         totalCacheExpired |-> reduceSum(allResults, "cacheExpired"),
         averageHitRate |->
           IF Len(allResults) > 0
           THEN toFixed2(reduceHitRates(allResults), 100 * Len(allResults), roundUp)
           ELSE ZeroRate],
      results |-> allResults,
      regions |-> targetRegions]


\* For each region, the summary of the run stored last under a results_ key
\* (NoSummary when none was), and the number of runs so stored; runs counts
\* the calls of storeResults.
NoneStored ==
  [last |-> [r \in Range(REGIONS_KEYS) |-> NoSummary],
   count |-> [r \in Range(REGIONS_KEYS) |-> 0],
   runs |-> 0]

StoredAfter(h, region, res, timestamp, fault) ==
  IF fault = "results"
  THEN [h EXCEPT !.runs = @ + 1]
  ELSE [h EXCEPT !.runs = @ + 1,
                 !.last[region] = summaryOf(region, res, timestamp),
                 !.count[region] = @ + 1]

\* One region's reads in getStatus: both gets answer, a get throws, or the
\* latest summary does not parse.
StatusFaults == {"none", "get", "parse"}

\* An entry that passes on an absent offset as it is.
statusEntryNoDefault(region, latestJson, progressStr, fault) ==
  IF fault = "get"
  THEN [stats |-> NoSummary, currentProgress |-> <<"0">>,
        coloCode |-> REGIONS[region]]
  ELSE [stats |-> IF latestJson # NoSummary /\ fault # "parse" THEN latestJson
                  ELSE NoSummary,
        currentProgress |-> progressStr,
        coloCode |-> REGIONS[region]]

\* status.regions[region] of getStatus: the body of its loop.  The catch
\* gives the entry of a region whose get throws; a summary that does not
\* parse leaves stats null; progressStr ?? '0'.
statusEntry(region, latestJson, progressStr, fault) ==
  IF fault = "get"
  THEN [stats |-> NoSummary, currentProgress |-> <<"0">>,
        coloCode |-> REGIONS[region]]
  ELSE [stats |-> IF latestJson # NoSummary /\ fault # "parse" THEN latestJson
                  ELSE NoSummary,
        currentProgress |-> IF progressStr = Null THEN <<"0">> ELSE progressStr,
        coloCode |-> REGIONS[region]]

\* getStatus(env): an entry for each of Object.keys(REGIONS).
getStatus(latest, progress, faults) ==
  [regions |->
     [region \in Range(REGIONS_KEYS) |->
        statusEntry(region, latest[region], progress[region], faults[region])]]

NoStat ==
  [done |-> FALSE, faults |-> [r \in Range(REGIONS_KEYS) |-> "none"],
   data |-> [regions |-> <<>>]]

\* logError(region, error, env): the payload goes under error_<region>_<now>;
\* the put is awaited outside any try block, so a put that throws ends
\* logError with that exception.  written is the record written, if any.
logError(region, error, putFails) ==
  [threw |-> putFails,
   written |-> IF putFails THEN <<>> ELSE <<[region |-> region, error |-> error]>>]

\* original is the error the run caught, putFailed whether the write of
\* logError failed, logThrew whether logError raised, written the record it
\* wrote and raised the error that reached the scheduler.
NoErr ==
  [original |-> "none", putFailed |-> FALSE, logThrew |-> FALSE,
   written |-> <<>>, raised |-> "none"]

\* The catch block of scheduled for the run rn: logError('system', error),
\* then throw error; an exception of logError leaves the block in its place.
ErrAfter(rn, putFails) ==
  IF rn.handler = "scheduled" /\ rn.raised
  THEN LET l == logError("system", rn.error, putFails)
       IN [original |-> rn.error, putFailed |-> putFails, logThrew |-> l.threw,
           written |-> l.written,
           raised |-> IF l.threw THEN "errorPut" ELSE rn.error]
  ELSE NoErr

\* ---------------------------------------------------------- the environment

\* A CF-RAY header: a request id, a hyphen, the colo that served.
Ray(colo) == <<"8", "f", "-">> \o colo

\* What a fetch of a page gives: fetch throws, or a response with its
\* CF-Cache-Status and CF-RAY headers ("" and <<>> when absent), its status,
\* and whether draining its body throws.
FetchThrows ==
  [fetch |-> "throw", cacheStatus |-> "", cfRay |-> <<>>, status |-> 0, drain |-> "ok"]

Response(cacheStatus, cfRay, status, drain) ==
  [fetch |-> "ok", cacheStatus |-> cacheStatus, cfRay |-> cfRay,
   status |-> status, drain |-> drain]

CacheStatuses == {"", "HIT", "MISS", "EXPIRED", "DYNAMIC"}

\* No header, a header with no hyphen, a header that ends with its hyphen,
\* the target colo, a colo of the target's region, a colo of another region.
Rays ==
  {<<>>, <<"8", "f">>, Ray(<<>>), Ray(Code("S", "F", "O")),
   Ray(Code("L", "A", "X")), Ray(Code("I", "A", "D"))}

WarmOutcomes ==
  {FetchThrows}
    \cup {Response(c, Ray(Code("S", "F", "O")), 200, "ok") : c \in CacheStatuses}
    \cup {Response("HIT", r, 200, "ok") : r \in Rays}
    \cup {Response("", <<>>, 200, "ok"),
          Response("MISS", Ray(Code("S", "F", "O")), 500, "ok"),
          Response("HIT", Ray(Code("S", "F", "O")), 200, "throw"),
          Response("", <<>>, 200, "throw")}

\* The body the orchestrator posts for a region (callRegionalDO), and a body
\* that leaves regionName and targetColo to their defaults.
WarmBodies ==
  {[urls |-> SubSeq(PageUrls, 1, k), regionName |-> b.regionName,
    targetColo |-> b.targetColo, totalUrls |-> 0] :
     k \in 0..MaxSlice,
     b \in {[regionName |-> regionKeys[1], targetColo |-> REGIONS[regionKeys[1]]],
            [regionName |-> "Unknown", targetColo |-> UNKNOWN]}}

NoReq ==
  [urls |-> <<>>, regionName |-> "Unknown", targetColo |-> UNKNOWN, totalUrls |-> 0]

\* A CF-RAY header that names no colo: absent or empty, without a hyphen,
\* or with nothing after its last hyphen.
NamesNoColo(cfRay) ==
  \/ cfRay = <<>>
  \/ ~Includes(cfRay, "-")
  \/ cfRay[Len(cfRay)] = "-"

\* The Durable Object before a request: pc is its position in handleWarm,
\* i the URLs the loop has passed, requested the URLs it has fetched, last
\* what the last fetch gave and before the results as they were ahead of it;
\* responses counts the fetches that gave a response and known those of
\* them whose CF-RAY header names a colo.
Idle ==
  [pc |-> "idle", i |-> 0, requested |-> <<>>, results |-> NewResults(0),
   before |-> NewResults(0), last |-> FetchThrows, responses |-> 0, known |-> 0]

Clock == 1..MaxClock

NoKeys == [k \in {} |-> Null]

\* The results of a run with these counters, as handleWarm leaves them.
RunOf(success, failures, cacheHit, cacheMiss, cacheExpired) ==
  withRates([NewResults(0) EXCEPT
               !.success = success, !.failures = failures,
               !.cacheHit = cacheHit, !.cacheMiss = cacheMiss,
               !.cacheExpired = cacheExpired], TRUE)

HistRuns == {RunOf(10, 0, 8, 2, 0), RunOf(5, 1, 2, 2, 1), RunOf(3, 0, 1, 2, 0)}

\* The timestamps of the summaries in the store when the history is read.
HistTimes == {1, 2}

HistKeys == Range(REGIONS_KEYS) \X HistTimes

\* The stores a deployment can hold when its history is read: MaxStored
\* summaries at most, each as storeResults wrote it under its key.
HistStores ==
  UNION {[ks -> HistRuns] : ks \in {s \in SUBSET HistKeys : Cardinality(s) <= MaxStored}}

storedAs(runs) == [k \in DOMAIN runs |-> summaryOf(k[1], runs[k], k[2])]

\* One store operation of a history request fails, or none does.
HistFaults ==
  {[list |-> {}, get |-> {}]}
    \cup {[list |-> {r}, get |-> {}] : r \in Range(REGIONS_KEYS)}
    \cup {[list |-> {}, get |-> {k}] : k \in HistKeys}

\* The offsets scheduled writes over a catalog of MaxUrls URLs, and none.
StatusOffsets == {Null} \cup {String(i) : i \in 0..(MaxUrls - 1)}

NoDisc == [done |-> FALSE, urls |-> <<>>]

NoHist ==
  [done |-> FALSE, region |-> NoRegion, limit |-> 0,
   faults |-> [list |-> {}, get |-> {}],
   data |-> getHistoricalData(NoKeys, NoRegion, 0, {}, {}, TRUE)]

SitemapUrls ==
  {"sitemap_index.xml", "page-sitemap.xml", "product-sitemap.xml", "post-sitemap.xml"}

\* getAllUrls before it is called: pc is its position, sources the sitemaps
\* of SITEMAPS its loop has yet to parse, stack the parseSitemap calls under
\* way (innermost last), each with the nested sitemaps its loop has yet to
\* parse and its allUrls, allUrls the Set of getAllUrls, and fetches the
\* number of fetch calls made for each sitemap.
NoWalk ==
  [pc |-> "idle", sources |-> <<>>, stack |-> <<>>, allUrls |-> <<>>,
   fetches |-> [u \in SitemapUrls |-> 0]]

\* The invocations of scheduled that may be under way at a time.
Invocations == {"first", "second"}

\* An invocation of scheduled before it begins: pc is its position, the
\* other fields its locals (lastIndexValue of getNextRegion; region, total =
\* allUrls.length, progressStr = what the get of progress_<region> gave,
\* lastIndex, endIndex, urlsToWarm and newIndex of scheduled), error the
\* point at which it failed, and before the offsets as they were when it
\* began.
NoInvocation ==
  [pc |-> "idle", lastIndexValue |-> Null, indexFault |-> "none",
   region |-> Undefined, total |-> 0, progressStr |-> Null,
   lastIndex |-> 0, endIndex |-> 0, urlsToWarm |-> <<>>, newIndex |-> 0,
   error |-> "none",
   before |-> [r \in ProgressKeys |-> Null]]

NoProcs == [p \in Invocations |-> NoInvocation]

\* For the region watch: the URLs executors have requested since the run
\* that followed the last wrap of its offset to 0 (or since the start),
\* whether one of them was requested again, and whether the offset has just
\* been wrapped.
NoCover == [requested |-> {}, again |-> FALSE, wrapped |-> FALSE]

\* The executor's loop before it starts: the URL it is at, the requests in
\* flight, how the last request ended and the ticks since, and the history
\* of the requests issued.
NoPace ==
  [pc |-> "idle", n |-> 0, rateLimitMs |-> 0, i |-> 0, inFlight |-> {},
   last |-> "none", since |-> 0, log |-> <<>>]

\* ----------------------------------------------------------------- actions

InitStore ==
  /\ kvIndex = Null
  /\ kvProgress = [r \in ProgressKeys |-> Null]
  /\ run = NoRun
  /\ gnr = NoGnr
  /\ rot = <<>>
  /\ cyc = NoCycle
  /\ req = NoReq
  /\ warm = Idle
  /\ kvLatest = [r \in Range(REGIONS_KEYS) |-> NoSummary]
  /\ disc = NoDisc
  /\ hist = NoHist
  /\ err = NoErr
  /\ stat = NoStat
  /\ now = 1
  /\ stored = NoneStored
  /\ walk = NoWalk
  /\ proc = NoProcs
  /\ cover = NoCover
  /\ pace = NoPace

\* The handler's writes to the store, and the history the specification keeps.
Finish(g, gf, rn) ==
  /\ kvIndex' = g.index
  /\ kvProgress' = IF rn.wrote
                   THEN [kvProgress EXCEPT ![rn.region] = String(rn.newIndex)]
                   ELSE kvProgress
  /\ IF track = "rotation"
     THEN /\ gnr' = GnrCall(g, kvIndex, gf)
          /\ rot' = RotAfter(rot, [region |-> g.region, ok |-> gf = "none"])
          /\ UNCHANGED <<run, cyc>>
     ELSE /\ run' = rn
          /\ cyc' = CycAfter(cyc, watch, rn)
          /\ UNCHANGED <<gnr, rot>>
  /\ UNCHANGED <<docs, pageSize, track, watch>>
  /\ UNCHANGED <<doVars, storeVars, disc, hist, stat, now, stored, stepVars>>
  /\ IF track = "errors"
     THEN \E putFails \in BOOLEAN : err' = ErrAfter(rn, putFails)
     ELSE UNCHANGED err

\* The cron trigger.
Scheduled ==
  \E gf \in GnrFaults, f \in RunFaults :
    LET g == getNextRegion(kvIndex, gf)
    IN Finish(g, gf, scheduledRun(g, Catalogs[docs], kvProgress, pageSize, f))

\* GET /trigger and GET /trigger?test=false.
Trigger ==
  \E testMode \in BOOLEAN, gf \in GnrFaults, f \in {"none", "dispatch", "doError"} :
    LET g == getNextRegion(kvIndex, gf)
    IN Finish(g, gf, triggerRun(g, Catalogs[docs], pageSize, testMode, f))

\* GET /reset-region.
ResetRegion ==
  \E fails \in BOOLEAN :
    LET r == resetRegion(kvIndex, fails)
    IN /\ kvIndex' = r.index
       /\ IF track = "rotation"
          THEN /\ gnr' = GnrReset(r, kvIndex)
               /\ rot' = IF r.ok THEN <<>> ELSE rot
          ELSE UNCHANGED <<gnr, rot>>
       /\ run' = NoRun
       /\ UNCHANGED <<kvProgress, docs, pageSize, track, watch, cyc>>
       /\ UNCHANGED <<doVars, storeVars, disc, hist, err, stat, now, stored, stepVars>>

\* The origin publishes other sitemaps; every cycle under way is then no
\* longer a cycle over an unchanged catalog.
SiteChange ==
  /\ docs' \in SchedWorlds \ {docs}
  /\ cyc' = NoCycle
  /\ run' = NoRun
  /\ UNCHANGED <<kvIndex, kvProgress, pageSize, track, gnr, rot, watch>>
  /\ UNCHANGED <<doVars, storeVars, disc, hist, err, stat, now, stored, stepVars>>

\* The orchestrator, recording the pagination history.
Init ==
  /\ InitStore
  /\ kvResults = NoKeys
  /\ track = "cycle"
  /\ watch \in Range(regionKeys)
  /\ docs \in SchedWorlds
  /\ pageSize \in PageSizes

Next == Scheduled \/ Trigger \/ ResetRegion \/ SiteChange

Spec == Init /\ [][Next]_vars

\* The orchestrator, recording the rotation history, over sitemaps that
\* stay as they are.
InitRot ==
  /\ InitStore
  /\ kvResults = NoKeys
  /\ track = "rotation"
  /\ watch = regionKeys[1]
  /\ docs = ShortWorld
  /\ pageSize \in PageSizes

NextRot == Scheduled \/ Trigger \/ ResetRegion

SpecRot == InitRot /\ [][NextRot]_vars


\* The orchestrator, recording how a scheduled run that fails is handled.
InitErr ==
  /\ InitStore
  /\ kvResults = NoKeys
  /\ track = "errors"
  /\ watch = regionKeys[1]
  /\ docs = ShortWorld
  /\ pageSize \in PageSizes

NextErr == Scheduled \/ Trigger \/ ResetRegion

SpecErr == InitErr /\ [][NextErr]_vars

\* ------------------------------------------- actions: the regional executor

\* POST /warm reaches the Durable Object: the body is read and the results
\* are set up.
HandleWarm ==
  /\ warm.pc = "idle"
  /\ \E body \in WarmBodies :
       /\ req' = body
       /\ warm' = [Idle EXCEPT !.pc = "loop",
                               !.results = NewResults(body.totalUrls),
                               !.before = NewResults(body.totalUrls)]
  /\ UNCHANGED <<orchVars, storeVars, disc, hist, err, stat, now, stored, stepVars>>

\* One pass of the loop over the slice.
WarmNext ==
  /\ warm.pc = "loop"
  /\ warm.i < Len(req.urls)
  /\ \E o \in WarmOutcomes :
       warm' = [warm EXCEPT
                  !.pc = afterUrl(o),
                  !.i = @ + 1,
                  !.requested = Append(@, req.urls[warm.i + 1]),
                  !.before = warm.results,
                  !.results = warmUrl(warm.results, req.urls[warm.i + 1], o,
                                      req.targetColo, regionColosOf(req.regionName)),
                  !.last = o,
                  !.responses = IF o.fetch = "ok" THEN @ + 1 ELSE @,
                  !.known = IF o.fetch = "ok" /\ ~NamesNoColo(o.cfRay)
                            THEN @ + 1 ELSE @]
  /\ UNCHANGED <<req, orchVars, storeVars, disc, hist, err, stat, now, stored, stepVars>>

\* After the loop: the rates, storeResults and the response; a put that
\* throws ends handleWarm with the exception.
WarmEnd ==
  /\ warm.pc = "loop"
  /\ warm.i = Len(req.urls)
  /\ \E roundUp \in BOOLEAN, fault \in StoreFaults :
       LET res == withRates(warm.results, roundUp)
           s == storeResults(kvResults, kvLatest, req.regionName, res, now, fault)
       IN /\ warm' = [warm EXCEPT !.pc = IF s.threw THEN "threw" ELSE "done",
                                  !.results = res]
          /\ kvResults' = s.results
          /\ kvLatest' = s.latest
  /\ UNCHANGED <<req, orchVars, disc, hist, err, stat, now, stored, stepVars>>

\* One warming request served by a Durable Object.
InitWarm ==
  /\ InitStore
  /\ kvResults = NoKeys
  /\ track = "executor"
  /\ watch = regionKeys[1]
  /\ docs = DownWorld
  /\ pageSize = 1

NextWarm == HandleWarm \/ WarmNext \/ WarmEnd

SpecWarm == InitWarm /\ [][NextWarm]_vars

\* The same, with every fetch and every store operation coming to an end.
SpecWarmLive == SpecWarm /\ WF_vars(NextWarm)

\* ------------------------------------------------------ actions: discovery

\* Lists of at most two <loc> values, repeats included.
LocLists ==
  {<<>>} \cup {<<u>> : u \in Range(PageUrls)}
         \cup {<<u, v>> : u \in Range(PageUrls), v \in Range(PageUrls)}

IndexDocs ==
  {ThrowDoc, NotOkDoc, Leaf(<<PageUrls[1]>>)}
    \cup {Index(c) : c \in {<<"page-sitemap.xml", "product-sitemap.xml">>,
                            <<"product-sitemap.xml", "page-sitemap.xml">>,
                            <<"product-sitemap.xml", "post-sitemap.xml">>,
                            <<"product-sitemap.xml">>,
                            <<"product-sitemap.xml", "product-sitemap.xml">>}}

PageDocs == {ThrowDoc} \cup {Leaf(l) : l \in LocLists}

ProductDocs ==
  {NotOkDoc, Index(<<"post-sitemap.xml", "page-sitemap.xml">>)}
    \cup {Leaf(l) : l \in LocLists}

PostDocs ==
  {ThrowDoc, Leaf(<<PageUrls[MaxUrls]>>), Leaf(<<PageUrls[1], PageUrls[MaxUrls]>>)}

DiscWorld(index, page, product, post) ==
  [u \in SitemapUrls |->
     CASE u = "sitemap_index.xml" -> index
       [] u = "page-sitemap.xml" -> page
       [] u = "product-sitemap.xml" -> product
       [] OTHER -> post]

\* The sitemaps an origin may serve: each document fails or not, is an index
\* or a leaf, and the index nests one level or two.
DiscWorlds ==
  {DiscWorld(i, p, q, r) :
     i \in IndexDocs, p \in PageDocs, q \in ProductDocs, r \in PostDocs}

\* getAllUrls() over the sitemaps the origin serves.
Discover ==
  /\ ~disc.done
  /\ disc' = [done |-> TRUE, urls |-> getAllUrls(docs)]
  /\ UNCHANGED <<orchVars, doVars, storeVars, hist, err, stat, now, stored, stepVars>>

InitDisc ==
  /\ InitStore
  /\ kvResults = NoKeys
  /\ track = "discovery"
  /\ watch = regionKeys[1]
  /\ docs \in DiscWorlds
  /\ pageSize = 1

NextDisc == Discover

SpecDisc == InitDisc /\ [][NextDisc]_vars

\* ------------------------------------------- actions: discovery, step by step

\* The parseSitemap calls the model keeps on the call stack.  A stack deeper
\* than the number of sitemap documents holds one document twice, and a walk
\* over unchanging documents then repeats itself without unwinding, so the
\* frames under the innermost MaxDepth are never come back to.
MaxDepth == 4

\* The number up to which the fetches of one sitemap are counted.
MaxFetches == 2

Top(stack) == stack[Len(stack)]

Pop(stack) == SubSeq(stack, 1, Len(stack) - 1)

Push(stack, frame) ==
  IF Len(stack) < MaxDepth THEN Append(stack, frame)
  ELSE Append(Tail(stack), frame)

\* The sitemap the walk fetches next: the next source of getAllUrls, or the
\* next nested sitemap of the innermost parseSitemap call.
walkTarget(w) ==
  IF w.stack = <<>> THEN Head(w.sources) ELSE Head(Top(w.stack).locs)

walkHasTarget(w) ==
  IF w.stack = <<>> THEN w.sources # <<>> ELSE Top(w.stack).locs # <<>>

\* A parseSitemap call ends with r.  Its caller is the loop of getAllUrls
\* (urls.forEach(url => allUrls.add(url)), or its catch) when stack is empty,
\* and the loop of the parseSitemap call on top of stack otherwise
\* (allUrls.push(...nestedUrls), or its catch); either loop goes on.
walkDeliver(w, stack, r) ==
  IF stack = <<>>
  THEN [w EXCEPT !.stack = <<>>,
                 !.sources = Tail(@),
                 !.allUrls = IF r.threw THEN @ ELSE SetAddAll(@, r.urls)]
  ELSE LET f == Top(stack)
           g == [f EXCEPT !.locs = Tail(@),
                          !.allUrls = IF r.threw THEN @ ELSE @ \o r.urls]
       IN [w EXCEPT !.stack = Append(Pop(stack), g)]

\* One fetch of parseSitemap and what follows it up to the next fetch or
\* return: a fetch that throws and a non-OK response end the call with an
\* exception, an index opens the loop over its nested sitemaps, and a leaf
\* ends the call with its URLs.
walkFetch(d, w) ==
  LET sitemapUrl == walkTarget(w)
      response == Fetch(d, sitemapUrl)
      counted == [w EXCEPT !.fetches[sitemapUrl] = Min(@ + 1, MaxFetches)]
  IN IF response.fetch # "ok" THEN walkDeliver(counted, w.stack, Threw)
     ELSE IF response.index
          THEN [counted EXCEPT
                  !.stack = Push(@, [locs |-> extractUrls(response), allUrls |-> <<>>])]
          ELSE walkDeliver(counted, w.stack, Returned(extractUrls(response)))

\* return allUrls of parseSitemap, the loop over the nested sitemaps done.
walkReturn(w) ==
  walkDeliver(w, Pop(w.stack), Returned(Top(w.stack).allUrls))

\* getAllUrls() is called.
WalkStart ==
  /\ walk.pc = "idle"
  /\ walk' = [NoWalk EXCEPT !.pc = "run", !.sources = SITEMAPS]
  /\ UNCHANGED <<orchVars, doVars, storeVars, disc, hist, err, stat, now, stored>>
  /\ UNCHANGED <<proc, cover, pace>>

WalkFetch ==
  /\ walk.pc = "run"
  /\ walkHasTarget(walk)
  /\ walk' = walkFetch(docs, walk)
  /\ UNCHANGED <<orchVars, doVars, storeVars, disc, hist, err, stat, now, stored>>
  /\ UNCHANGED <<proc, cover, pace>>

WalkReturn ==
  /\ walk.pc = "run"
  /\ walk.stack # <<>>
  /\ ~walkHasTarget(walk)
  /\ walk' = walkReturn(walk)
  /\ UNCHANGED <<orchVars, doVars, storeVars, disc, hist, err, stat, now, stored>>
  /\ UNCHANGED <<proc, cover, pace>>

\* return Array.from(allUrls)
WalkEnd ==
  /\ walk.pc = "run"
  /\ walk.stack = <<>>
  /\ walk.sources = <<>>
  /\ walk' = [walk EXCEPT !.pc = "done"]
  /\ UNCHANGED <<orchVars, doVars, storeVars, disc, hist, err, stat, now, stored>>
  /\ UNCHANGED <<proc, cover, pace>>

\* The sitemaps an origin may serve, among them a source that is also listed
\* by the index, an index that lists itself and two indexes that list each
\* other.
WalkIndexDocs ==
  {ThrowDoc,
   Index(<<"page-sitemap.xml", "product-sitemap.xml">>),
   Index(<<"product-sitemap.xml", "post-sitemap.xml">>),
   Index(<<"product-sitemap.xml">>),
   Index(<<"sitemap_index.xml">>)}

WalkPageDocs ==
  {ThrowDoc, NotOkDoc, Leaf(<<PageUrls[1]>>), Leaf(<<PageUrls[1], PageUrls[2]>>)}

WalkProductDocs ==
  {NotOkDoc, Leaf(<<PageUrls[2]>>), Leaf(<<PageUrls[2], PageUrls[MaxUrls]>>),
   Index(<<"post-sitemap.xml", "page-sitemap.xml">>),
   Index(<<"post-sitemap.xml", "sitemap_index.xml">>)}

WalkPostDocs == {ThrowDoc, Leaf(<<PageUrls[MaxUrls]>>)}

WalkWorlds ==
  {DiscWorld(i, p, q, r) :
     i \in WalkIndexDocs, p \in WalkPageDocs, q \in WalkProductDocs,
     r \in WalkPostDocs}

InitWalk ==
  /\ InitStore
  /\ kvResults = NoKeys
  /\ track = "walk"
  /\ watch = regionKeys[1]
  /\ docs \in WalkWorlds
  /\ pageSize = 1

NextWalk == WalkStart \/ WalkFetch \/ WalkReturn \/ WalkEnd

\* One discovery over sitemaps that stay as they are.
SpecWalk == InitWalk /\ [][NextWalk]_vars

\* The same, with every fetch coming to an end.
SpecWalkLive == SpecWalk /\ WF_vars(NextWalk)

\* ----------------------------------- actions: scheduled, await by await

\* What the await of callRegionalDO comes to, seen from scheduled: the
\* Durable Object is not reached (no location hint, or stub.fetch throws),
\* it dies in its loop with the first k URLs of the slice requested, it ends
\* its loop and answers with an error (a put of storeResults threw), or it
\* answers with its results.
DoOutcomes == {"unreached", "died", "failed", "ok"}

\* A callRegionalDO that takes every answer of the Durable Object for its
\* results.
callRegionalDOLenient(regionName, urls, outcome, k) ==
  IF regionName \notin DO_REGION_HINTS_KEYS \/ outcome = "unreached"
  THEN [threw |-> TRUE, error |-> "dispatch", requested |-> {}]
  ELSE IF outcome = "died"
  THEN [threw |-> FALSE, error |-> "none",
        requested |-> Range(SubSeq(urls, 1, Min(k, Len(urls))))]
  ELSE [threw |-> FALSE, error |-> "none", requested |-> Range(urls)]

\* callRegionalDO(env, regionName, urls) with the Durable Object giving
\* outcome: whether it throws, and the URLs the Durable Object has requested.
callRegionalDO(regionName, urls, outcome, k) ==
  IF regionName \notin DO_REGION_HINTS_KEYS \/ outcome = "unreached"
  THEN [threw |-> TRUE, error |-> "dispatch", requested |-> {}]
  ELSE IF outcome = "died"
  THEN [threw |-> TRUE, error |-> "doError",
        requested |-> Range(SubSeq(urls, 1, Min(k, Len(urls))))]
  ELSE IF outcome = "failed"
  THEN [threw |-> TRUE, error |-> "doError", requested |-> Range(urls)]
  ELSE [threw |-> FALSE, error |-> "none", requested |-> Range(urls)]

\* The body callRegionalDO posts to the Durable Object.
bodyOf(regionName, urls, totalUrls) ==
  [urls |-> urls, regionName |-> regionName,
   targetColo |-> REGIONS[regionName], totalUrls |-> totalUrls]

\* A catch that logs the error of the dispatch and goes on.
afterDispatchSwallow(threw) == "putProgress"

\* try { results = await callRegionalDO(...) } catch (error) { throw error }
afterDispatch(threw) == IF threw THEN "raised" ELSE "putProgress"

\* An invocation that has ended: of its locals the model keeps those that
\* tell what it did (the region and the slice it warmed, the offset it wrote).
Ended(inv, pc) ==
  [NoInvocation EXCEPT !.pc = pc, !.region = inv.region,
                       !.lastIndexValue = inv.lastIndexValue,
                       !.indexFault = inv.indexFault,
                       !.progressStr = inv.progressStr,
                       !.lastIndex = inv.lastIndex,
                       !.urlsToWarm = inv.urlsToWarm,
                       !.newIndex = inv.newIndex,
                       !.error = inv.error,
                       !.before = inv.before]

Running ==
  {"getIndex", "putIndex", "getProgress", "dispatch", "awaitDO", "putProgress"}

\* The invocations that may begin: both of them, once each, where cron runs
\* overlap; one at a time where they do not; one only where a single run is
\* followed into the Durable Object.
MayBegin(p) ==
  CASE track = "race" -> proc[p].pc = "idle"
    [] track = "handoff" -> p = "first" /\ proc[p].pc = "idle"
    [] OTHER -> /\ p = "first"
                /\ proc[p].pc \in {"idle", "done", "raised", "crashed"}

stepFrame ==
  /\ UNCHANGED <<docs, pageSize, track, run, gnr, rot, watch, cyc>>
  /\ UNCHANGED <<disc, hist, err, stat, now, stored, walk, pace>>

\* The cron trigger fires.
Begin(p) ==
  /\ MayBegin(p)
  /\ proc' = [proc EXCEPT ![p] = [NoInvocation EXCEPT !.pc = "getIndex",
                                                      !.before = kvProgress]]
  /\ UNCHANGED <<kvIndex, kvProgress, doVars, storeVars, cover>>
  /\ stepFrame

\* getNextRegion: await get('last_region_index').
GetIndex(p) ==
  /\ proc[p].pc = "getIndex"
  /\ \E fails \in BOOLEAN :
       proc' = [proc EXCEPT ![p] =
                  IF fails
                  THEN [@ EXCEPT !.pc = "getProgress", !.indexFault = "get",
                                 !.region = getNextRegion(kvIndex, "get").region]
                  ELSE [@ EXCEPT !.pc = "putIndex", !.lastIndexValue = kvIndex]]
  /\ UNCHANGED <<kvIndex, kvProgress, doVars, storeVars, cover>>
  /\ stepFrame

\* getNextRegion: nextIndex, nextRegion and await put('last_region_index').
PutIndex(p) ==
  /\ proc[p].pc = "putIndex"
  /\ \E fault \in {"none", "put"} :
       LET g == getNextRegion(proc[p].lastIndexValue, fault)
       IN /\ proc' = [proc EXCEPT ![p] = [@ EXCEPT !.pc = "getProgress",
                                                   !.indexFault = fault,
                                                   !.region = g.region]]
          /\ kvIndex' = IF fault = "put" THEN kvIndex ELSE g.index
  /\ UNCHANGED <<kvProgress, doVars, storeVars, cover>>
  /\ stepFrame

\* scheduled: getAllUrls, await get(progressKey), and the slice.
GetProgress(p) ==
  /\ proc[p].pc = "getProgress"
  /\ \E fails \in BOOLEAN :
       LET allUrls == Catalogs[docs]
           progressStr == kvProgress[proc[p].region]
           sl == nextSlice(progressStr, allUrls, pageSize)
       IN proc' = [proc EXCEPT ![p] =
                     IF fails
                     THEN [@ EXCEPT !.pc = "raised", !.error = "progressGet",
                                    !.total = Len(allUrls)]
                     ELSE [@ EXCEPT !.pc = "dispatch",
                                    !.total = Len(allUrls),
                                    !.progressStr = progressStr,
                                    !.lastIndex = sl.lastIndex,
                                    !.endIndex = sl.endIndex,
                                    !.urlsToWarm = sl.urlsToWarm,
                                    !.newIndex = sl.newIndex]]
  /\ UNCHANGED <<kvIndex, kvProgress, doVars, storeVars, cover>>
  /\ stepFrame

\* The URLs requested for watch, after a warming run that requested these.
CoverAfter(c, region, requested) ==
  LET sofar == IF c.wrapped THEN NoCover ELSE c
  IN IF region = watch
     THEN [requested |-> sofar.requested \cup requested,
           again |-> sofar.again \/ sofar.requested \cap requested # {},
           wrapped |-> FALSE]
     ELSE c

\* scheduled: await callRegionalDO(env, region, urlsToWarm), the Durable
\* Object being what its caller sees of it.
Dispatch(p) ==
  /\ proc[p].pc = "dispatch"
  /\ track # "handoff"
  /\ LET inv == proc[p] IN
     \E outcome \in DoOutcomes, k \in 0..(Max(Len(inv.urlsToWarm), 1) - 1) :
       LET c == callRegionalDO(inv.region, inv.urlsToWarm, outcome, k)
       IN /\ proc' = [proc EXCEPT ![p] =
                        [@ EXCEPT !.pc = afterDispatch(c.threw),
                                  !.error = c.error]]
          /\ cover' = CoverAfter(cover, inv.region, c.requested)
  /\ UNCHANGED <<kvIndex, kvProgress, doVars, storeVars>>
  /\ stepFrame

\* scheduled: newIndex and await put(progressKey, newIndex.toString()).
PutProgress(p) ==
  /\ proc[p].pc = "putProgress"
  /\ \E fails \in BOOLEAN :
       /\ proc' = [proc EXCEPT ![p] =
                     IF fails THEN [@ EXCEPT !.pc = "raised", !.error = "progressPut"]
                     ELSE Ended(@, "done")]
       /\ kvProgress' = IF fails THEN kvProgress
                        ELSE [kvProgress EXCEPT ![proc[p].region] =
                                                  String(proc[p].newIndex)]
       /\ cover' = IF ~fails /\ proc[p].region = watch /\ proc[p].newIndex = 0
                   THEN [cover EXCEPT !.wrapped = TRUE]
                   ELSE cover
  /\ UNCHANGED <<kvIndex, doVars, storeVars>>
  /\ stepFrame

\* The invocation is ended from outside between two of its awaits (its time
\* or memory limit, a restart of the runtime): nothing more of it runs.
Crash(p) ==
  /\ proc[p].pc \in Running
  /\ proc' = [proc EXCEPT ![p] = Ended(@, "crashed")]
  /\ UNCHANGED <<kvIndex, kvProgress, doVars, storeVars, cover>>
  /\ stepFrame

\* callRegionalDO up to its await of stub.fetch: the request reaches the
\* Durable Object, which reads the body and sets up its results, or the
\* region has no location hint or stub.fetch throws.
CallDO(p) ==
  /\ proc[p].pc = "dispatch"
  /\ track = "handoff"
  /\ warm.pc = "idle"
  /\ \E reached \in BOOLEAN :
       LET inv == proc[p]
           body == bodyOf(inv.region, inv.urlsToWarm, inv.total)
       IN IF reached /\ inv.region \in DO_REGION_HINTS_KEYS
          THEN /\ req' = body
               /\ warm' = [Idle EXCEPT !.pc = "loop",
                                       !.results = NewResults(body.totalUrls),
                                       !.before = NewResults(body.totalUrls)]
               /\ proc' = [proc EXCEPT ![p] = [@ EXCEPT !.pc = "awaitDO"]]
          ELSE /\ proc' = [proc EXCEPT ![p] =
                             [@ EXCEPT !.pc = afterDispatch(TRUE),
                                       !.error = "dispatch"]]
               /\ UNCHANGED doVars
  /\ UNCHANGED <<kvIndex, kvProgress, storeVars, cover>>
  /\ stepFrame

\* callRegionalDO from the answer of the Durable Object: an exception of
\* handleWarm is an answer that is not OK, for which callRegionalDO throws.
ReturnDO(p) ==
  /\ proc[p].pc = "awaitDO"
  /\ warm.pc \in {"done", "threw"}
  /\ proc' = [proc EXCEPT ![p] =
                [@ EXCEPT !.pc = afterDispatch(warm.pc = "threw"),
                          !.error = IF warm.pc = "threw" THEN "doError" ELSE "none"]]
  /\ UNCHANGED <<kvIndex, kvProgress, doVars, storeVars, cover>>
  /\ stepFrame

Step(p) ==
  \/ Begin(p)
  \/ GetIndex(p)
  \/ PutIndex(p)
  \/ GetProgress(p)
  \/ Dispatch(p)
  \/ PutProgress(p)

InitSteps ==
  /\ InitStore
  /\ kvResults = NoKeys
  /\ watch \in Range(regionKeys)
  /\ docs = FullWorld
  /\ pageSize \in PageSizes

\* Scheduled runs that never overlap, any of which may be ended from outside.
InitSeq == InitSteps /\ track = "sequence"

NextSeq == \E p \in Invocations : Step(p) \/ Crash(p)

SpecSeq == InitSeq /\ [][NextSeq]_vars

\* One scheduled run, followed into the Durable Object it warms through,
\* from any offset a region may have reached.
InitHandoff ==
  /\ kvIndex = Null
  /\ \E v \in StatusOffsets : kvProgress = [r \in ProgressKeys |-> v]
  /\ run = NoRun /\ gnr = NoGnr /\ rot = <<>> /\ cyc = NoCycle
  /\ req = NoReq /\ warm = Idle
  /\ disc = NoDisc /\ hist = NoHist /\ err = NoErr /\ stat = NoStat
  /\ now = 1 /\ stored = NoneStored
  /\ walk = NoWalk /\ proc = NoProcs /\ cover = NoCover /\ pace = NoPace
  /\ kvResults = NoKeys
  /\ kvLatest = [r \in Range(REGIONS_KEYS) |-> NoSummary]
  /\ track = "handoff"
  /\ watch = regionKeys[1]
  /\ docs = FullWorld
  /\ pageSize \in PageSizes

NextHandoff ==
  \/ \E p \in Invocations :
       \/ Begin(p) \/ GetIndex(p) \/ PutIndex(p) \/ GetProgress(p)
       \/ CallDO(p) \/ ReturnDO(p) \/ PutProgress(p)
  \/ WarmNext
  \/ WarmEnd

SpecHandoff == InitHandoff /\ [][NextHandoff]_vars

\* Two scheduled runs that overlap.
InitRace == InitSteps /\ track = "race"

NextRace == \E p \in Invocations : Step(p)

SpecRace == InitRace /\ [][NextRace]_vars

\* ------------------------------- actions: the executor's loop, in time

\* Largest RATE_LIMIT_MS, in ticks of the clock.
MaxRate == 2

\* What parseInt(env.RATE_LIMIT_MS) || 2000 may give: any whole number but 0
\* and NaN, so a negative one too.
Rates == {0 - 1} \cup (1 .. MaxRate)

\* setTimeout(r, ms) fires no sooner than ms after it is set, and a negative
\* ms counts as none.
timerDueNow(ms) == 0

timerDue(ms) == IF ms < 0 THEN 0 ELSE ms

\* handleWarm is called with the URLs of its request.
PaceStart ==
  /\ track = "pace"
  /\ pace.pc = "idle"
  /\ \E n \in 1 .. MaxUrls, ms \in Rates :
       pace' = [NoPace EXCEPT !.pc = "loop", !.n = n, !.rateLimitMs = ms]
  /\ UNCHANGED <<orchVars, doVars, storeVars, disc, hist, err, stat, now, stored>>
  /\ UNCHANGED <<walk, proc, cover>>

\* The loop takes its next URL and calls fetch: the request is in flight.
\* The history keeps how the request before it ended, how long ago, and how
\* many requests were in flight when this one was issued.
PaceIssue ==
  /\ pace.pc = "loop"
  /\ pace.i < pace.n
  /\ pace' = [pace EXCEPT
       !.pc = "fetching",
       !.i = @ + 1,
       !.inFlight = @ \cup {pace.i + 1},
       !.log = Append(@, [url |-> pace.i + 1,
                          prev |-> pace.last,
                          waited |-> pace.since,
                          busy |-> Cardinality(pace.inFlight)])]
  /\ UNCHANGED <<orchVars, doVars, storeVars, disc, hist, err, stat, now, stored>>
  /\ UNCHANGED <<walk, proc, cover>>

\* fetch resolves with the response's head; its body is still to be read.
PaceRespond ==
  /\ pace.pc = "fetching"
  /\ pace' = [pace EXCEPT !.pc = "draining"]
  /\ UNCHANGED <<orchVars, doVars, storeVars, disc, hist, err, stat, now, stored>>
  /\ UNCHANGED <<walk, proc, cover>>

\* The awaited call ends: fetch rejects, or response.text() resolves or
\* rejects.  Nothing is awaited between that and setTimeout.
PaceSettle ==
  /\ pace.pc \in {"fetching", "draining"}
  /\ \E threw \in BOOLEAN :
       /\ pace.pc = "fetching" => threw
       /\ pace' = [pace EXCEPT
            !.pc = "sleeping",
            !.inFlight = @ \ {pace.i},
            !.last = IF threw THEN "failed" ELSE "completed",
            !.since = 0]
  /\ UNCHANGED <<orchVars, doVars, storeVars, disc, hist, err, stat, now, stored>>
  /\ UNCHANGED <<walk, proc, cover>>

\* A tick of the clock; the time since the last request ended is kept up to
\* MaxRate.
PaceTick ==
  /\ pace.pc \in {"fetching", "draining", "sleeping"}
  /\ pace.since < MaxRate
  /\ pace' = [pace EXCEPT !.since = @ + 1]
  /\ UNCHANGED <<orchVars, doVars, storeVars, disc, hist, err, stat, now, stored>>
  /\ UNCHANGED <<walk, proc, cover>>

\* The timer fires and the loop goes on.
PaceTimer ==
  /\ pace.pc = "sleeping"
  /\ pace.since >= timerDue(pace.rateLimitMs)
  /\ pace' = [pace EXCEPT !.pc = "loop"]
  /\ UNCHANGED <<orchVars, doVars, storeVars, disc, hist, err, stat, now, stored>>
  /\ UNCHANGED <<walk, proc, cover>>

\* The loop is over.
PaceEnd ==
  /\ pace.pc = "loop"
  /\ pace.i = pace.n
  /\ pace' = [pace EXCEPT !.pc = "done"]
  /\ UNCHANGED <<orchVars, doVars, storeVars, disc, hist, err, stat, now, stored>>
  /\ UNCHANGED <<walk, proc, cover>>

InitPace ==
  /\ InitStore
  /\ kvResults = NoKeys
  /\ track = "pace"
  /\ watch = regionKeys[1]
  /\ docs = FullWorld
  /\ pageSize = 1

NextPace ==
  \/ PaceStart \/ PaceIssue \/ PaceRespond \/ PaceSettle
  \/ PaceTick \/ PaceTimer \/ PaceEnd

\* One run of handleWarm's loop, with the clock.
SpecPace == InitPace /\ [][NextPace]_vars

\* -------------------------------------------------------- actions: history

\* GET /history: getHistoricalData over the store as it is.
GetHistory ==
  /\ ~hist.done
  /\ \E region \in {NoRegion} \cup Range(REGIONS_KEYS), limit \in 1..MaxStored,
        f \in HistFaults, roundUp \in BOOLEAN :
       hist' = [done |-> TRUE, region |-> region, limit |-> limit, faults |-> f,
                data |-> getHistoricalData(kvResults, region, limit,
                                           f.list, f.get, roundUp)]
  /\ UNCHANGED <<orchVars, doVars, storeVars, disc, err, stat, now, stored, stepVars>>

InitHist ==
  /\ InitStore
  /\ kvResults \in {storedAs(runs) : runs \in HistStores}
  /\ track = "history"
  /\ watch = regionKeys[1]
  /\ docs = DownWorld
  /\ pageSize = 1

NextHist == GetHistory

SpecHist == InitHist /\ [][NextHist]_vars

\* ---------------------------------------------------------- actions: store

StoreRuns == {RunOf(10, 0, 8, 2, 0), RunOf(5, 1, 2, 2, 1)}

\* A warming run for a region ends: storeResults(region, results, ...).
StoreRun ==
  /\ stored.runs < MaxRuns
  /\ \E region \in Range(REGIONS_KEYS), res \in StoreRuns, fault \in StoreFaults :
       LET s == storeResults(kvResults, kvLatest, region, res, now, fault)
       IN /\ kvResults' = s.results
          /\ kvLatest' = s.latest
          /\ stored' = StoredAfter(stored, region, res, now, fault)
  /\ UNCHANGED <<orchVars, doVars, disc, hist, err, stat, now, stepVars>>

\* A millisecond passes.
Tick ==
  /\ now < MaxClock
  /\ now' = now + 1
  /\ UNCHANGED <<orchVars, doVars, storeVars, disc, hist, err, stat, stored, stepVars>>

InitStoring ==
  /\ InitStore
  /\ kvResults = NoKeys
  /\ track = "store"
  /\ watch = regionKeys[1]
  /\ docs = DownWorld
  /\ pageSize = 1

NextStore == StoreRun \/ Tick

SpecStore == InitStoring /\ [][NextStore]_vars

\* --------------------------------------------------------- actions: status

\* The latest summaries a deployment can hold when its status is read.
StatusRuns == {NoSummary, RunOf(10, 0, 8, 2, 0), RunOf(5, 1, 2, 2, 1)}

\* GET /status: getStatus over the store as it is.
GetStatus ==
  /\ ~stat.done
  /\ \E faults \in [Range(REGIONS_KEYS) -> StatusFaults] :
       stat' = [done |-> TRUE, faults |-> faults,
                data |-> getStatus(kvLatest, kvProgress, faults)]
  /\ UNCHANGED <<orchVars, doVars, storeVars, disc, hist, err, now, stored, stepVars>>

InitStatus ==
  /\ kvIndex = Null
  /\ kvProgress \in [ProgressKeys -> StatusOffsets]
  /\ kvProgress[Undefined] = Null
  /\ run = NoRun /\ gnr = NoGnr /\ rot = <<>> /\ cyc = NoCycle
  /\ req = NoReq /\ warm = Idle
  /\ disc = NoDisc /\ hist = NoHist /\ err = NoErr /\ stat = NoStat
  /\ now = 1 /\ stored = NoneStored
  /\ walk = NoWalk /\ proc = NoProcs /\ cover = NoCover /\ pace = NoPace
  /\ kvResults = NoKeys
  /\ \E l \in [Range(REGIONS_KEYS) -> StatusRuns] :
       kvLatest = [r \in Range(REGIONS_KEYS) |->
                     IF l[r] = NoSummary THEN NoSummary
                     ELSE summaryOf(r, l[r], 1)]
  /\ track = "status"
  /\ watch = regionKeys[1]
  /\ docs = DownWorld
  /\ pageSize = 1

NextStatus == GetStatus

SpecStatus == InitStatus /\ [][NextStatus]_vars

\* ------------------------------------------------- claims: the orchestrator

\* C1: with the catalog unchanged and every scheduled run for a region
\* succeeding, the runs of a cycle that began at offset 0 hand over the
\* consecutive slices of the catalog: before the wrap, exactly the URLs before
\* the persisted offset, in catalog order; at the wrap, the whole catalog,
\* each URL once and in order, and the persisted offset is '0' again.
C1_CycleVisitsEachUrlOnce ==
  cyc.clean =>
    LET C == Catalogs[docs]
    IN IF cyc.wrapped
       THEN cyc.handed = C /\ kvProgress[watch] = <<"0">>
       ELSE /\ kvProgress[watch] # Null
            /\ cyc.handed = SubSeq(C, 1, parseInt(kvProgress[watch]))

\* A cycle of two runs over the whole catalog, the second a partial page.
C1_Witness ==
  /\ cyc.clean /\ cyc.wrapped
  /\ pageSize = 2
  /\ Len(cyc.handed) = MaxUrls
  /\ run.handler = "scheduled" /\ run.lastIndex = 2

\* C13: a manual run in full mode (/trigger?test=false) that succeeds has
\* read the persisted offset of its region, has handed over the slice of the
\* configured page size that starts at that offset, and has persisted the
\* advanced or wrapped offset.
C13_ManualRunSameCycle ==
  (run.handler = "trigger" /\ ~run.testMode /\ run.handed /\ ~run.raised) =>
    /\ run.read
    /\ run.urlsToWarm
         = JsSlice(Catalogs[docs], run.lastIndex, run.lastIndex + pageSize)
    /\ run.wrote
    /\ kvProgress[run.region] = String(run.newIndex)

\* C14: a scheduled run whose dispatch to the Durable Object fails is
\* aborted (no offset is written), an error record labelled "system" is
\* written, and the dispatch error is the error raised to the scheduler.
C14_DispatchFailureLoggedAndRaised ==
  (run.handler = "scheduled" /\ run.error \in {"dispatch", "doError"}) =>
    /\ run.raised /\ ~run.wrote
    /\ err.written = <<[region |-> "system", error |-> run.error]>>
    /\ err.raised = run.error

\* C15: when the write of logError fails, logError does not raise, and the
\* scheduled run's handler still raises its own original error.
C15_LogFailureNotEscalated ==
  (err.original # "none" /\ err.putFailed) =>
    ~err.logThrew /\ err.raised = err.original

\* C9: the offset a run reads is within the catalog the run discovered.
C9_OffsetWithinCatalog ==
  run.read => 0 <= run.lastIndex /\ run.lastIndex <= run.total

\* C2 as stated: within a window of consecutive getNextRegion calls the
\* first N return N different regions and call N + 1 returns the region of
\* the first.
C2_PureRoundRobin ==
  LET n == Len(regionKeys)
  IN /\ \A i, j \in 1..Min(Len(rot), n) :
          i # j => rot[i].region # rot[j].region
     /\ Len(rot) = n + 1 => rot[n + 1].region = rot[1].region

\* C2 as amended: the same, for windows in which every call's read and write
\* of the cursor succeeded.
C2_RoundRobinWhileStoreAnswers ==
  (\A i \in 1..Len(rot) : rot[i].ok) => C2_PureRoundRobin

\* A full window of successful calls that does not begin at the first region.
C2_Witness ==
  /\ Len(rot) = Len(regionKeys) + 1
  /\ \A i \in 1..Len(rot) : rot[i].ok
  /\ rot[1].region # regionKeys[1]

\* C3: the first getNextRegion call after a reset that succeeded returns the
\* first region of the rotation order.
C3_ResetThenFirstRegion ==
  (gnr.op = "next" /\ gnr.afterReset) =>
    (~gnr.raised /\ gnr.region = regionKeys[1])

\* A reset at cursor '0' (the next region would have been the second),
\* then a call whose read and write succeed.
C3_Witness ==
  /\ gnr.op = "next" /\ gnr.afterReset /\ gnr.fault = "none"
  /\ gnr.resetBefore = <<"0">>
  /\ gnr.after = <<"0">>

\* C10: a getNextRegion call whose read or write of the cursor throws does
\* not raise, returns the first region, and leaves last_region_index as it was.
C10_FailOpen ==
  (gnr.op = "next" /\ gnr.fault # "none") =>
    /\ ~gnr.raised
    /\ gnr.region = regionKeys[1]
    /\ gnr.after = gnr.before
    /\ kvIndex = gnr.before

\* The write throws at cursor '0', where the call would have moved on to
\* the second region.
C10_Witness ==
  /\ gnr.op = "next" /\ gnr.fault = "put"
  /\ gnr.before = <<"0">> /\ kvIndex = <<"0">>
  /\ gnr.region = regionKeys[1]

\* ------------------------------------------- claims: the regional executor

\* C4: when a warming run has ended, success + failures is the number of
\* URLs of its slice, and so is the number of per-URL detail entries,
\* whatever each request did.
C4_CountsAddUpToSlice ==
  warm.pc \in {"done", "threw"} =>
    /\ warm.results.success + warm.results.failures = Len(req.urls)
    /\ Len(warm.results.urls) = Len(req.urls)

\* C5: a response whose CF-RAY header is absent or malformed, and whose body
\* drains, is given the observed location UNKNOWN, adds nothing to the
\* location breakdown, moves neither exact-match counter and adds one to the
\* regional mismatches.
C5_NoColoIsUnknown ==
  (warm.i > 0 /\ warm.last.fetch = "ok" /\ warm.last.drain = "ok"
     /\ NamesNoColo(warm.last.cfRay)) =>
    LET r == warm.results
        b == warm.before
    IN /\ r.urls[Len(r.urls)].actualColo = UNKNOWN
       /\ r.coloBreakdown = b.coloBreakdown
       /\ r.coloMatched = b.coloMatched
       /\ r.coloMismatched = b.coloMismatched
       /\ r.regionMatched = b.regionMatched
       /\ r.regionMismatched = b.regionMismatched + 1

\* text is num / den x 100 to two decimals, within 0 .. 100, and "0.00" when
\* den is zero.
IsRateOf(text, num, den) ==
  IF den = 0 THEN text = ZeroRate
  ELSE LET h == parseFloat(text)
           diff == h * den - 10000 * num
       IN /\ h # NaN
          /\ Fixed2(h) = text
          /\ 0 <= h /\ h <= 10000
          /\ 2 * (IF diff < 0 THEN -diff ELSE diff) <= den

\* C6: when a warming run has ended its hit rate is (hit + expired) / success
\* x 100, its location match rate matched / (matched + mismatched) x 100 and
\* its region match rate likewise; each lies in 0 .. 100 and is "0.00" when
\* its denominator is zero.
C6_RatesWithinBounds ==
  warm.pc \in {"done", "threw"} =>
    LET r == warm.results
    IN /\ IsRateOf(r.hitRate, r.cacheHit + r.cacheExpired, r.success)
       /\ IsRateOf(r.coloMatchRate, r.coloMatched, r.coloMatched + r.coloMismatched)
       /\ IsRateOf(r.regionMatchRate, r.regionMatched,
                   r.regionMatched + r.regionMismatched)

\* C6 happens: a run of two URLs ends with one hit of two successes ("50.00"),
\* no location checked ("0.00" for a zero denominator) and no regional match.
C6_Witness ==
  /\ warm.pc = "done"
  /\ warm.results.success = 2
  /\ warm.results.hitRate = <<"5", "0", ".", "0", "0">>
  /\ warm.results.coloMatched + warm.results.coloMismatched = 0
  /\ warm.results.coloMatchRate = ZeroRate
  /\ warm.results.regionMismatched = 2

\* C11: in a warming run the URLs fetched are the URLs of the slice, each
\* once and in slice order, and a run that is in its loop comes to its rate
\* computation and store step with every URL fetched, whichever URLs failed.
C11_RunOutlivesTransportErrors ==
  /\ [](warm.pc # "idle" => warm.requested = SubSeq(req.urls, 1, warm.i))
  /\ (warm.pc = "loop") ~>
       (warm.pc \in {"done", "threw"} /\ warm.requested = req.urls)

\* C11 happens: a run of two URLs whose first fetch threw has fetched the
\* second URL and has ended.
C11_Witness ==
  /\ warm.pc = "done"
  /\ Len(req.urls) = 2
  /\ Len(warm.results.urls) = 2
  /\ "error" \in DOMAIN warm.results.urls[1]
  /\ warm.results.success = 1
  /\ warm.requested = req.urls

\* C12: a URL whose response has a status outside 200 .. 299, and whose
\* body drains, is counted as a failure and not as a success.
C12_NonOkIsFailure ==
  (warm.i > 0 /\ warm.last.fetch = "ok" /\ warm.last.drain = "ok"
     /\ ~(warm.last.status \in 200..299)) =>
    /\ warm.results.failures = warm.before.failures + 1
    /\ warm.results.success = warm.before.success

\* -------------------------------------------------------- claims: discovery

RECURSIVE Flat(_)
Flat(ss) == IF ss = <<>> THEN <<>> ELSE Head(ss) \o Flat(Tail(ss))

\* The <loc> values of the pages as a depth-first walk from url meets them;
\* a document that cannot be fetched contributes none.
RECURSIVE EncounterOf(_, _)
EncounterOf(d, url) ==
  LET doc == Fetch(d, url)
  IN IF doc.fetch # "ok" THEN <<>>
     ELSE IF doc.index
          THEN Flat([i \in 1..Len(doc.locs) |-> EncounterOf(d, doc.locs[i])])
          ELSE doc.locs

Encounter(d) == Flat([i \in 1..Len(SITEMAPS) |-> EncounterOf(d, SITEMAPS[i])])

FirstPos(e, u) == CHOOSE i \in 1..Len(e) : e[i] = u /\ \A j \in 1..(i - 1) : e[j] # u

\* An index of two leaves that share one URL; the second source is down.
TwoLeafWorld ==
  DiscWorld(Index(<<"product-sitemap.xml", "post-sitemap.xml">>),
            ThrowDoc,
            Leaf(<<PageUrls[1], PageUrls[2]>>),
            Leaf(<<PageUrls[1], PageUrls[MaxUrls]>>))

\* C7: discovery returns every URL met once, in the order of first encounter
\* across the sources and depth-first within an index; for the index of two
\* leaves sharing one URL it returns their union, the shared URL once.
C7_DiscoveryDedupInOrder ==
  disc.done =>
    LET r == disc.urls
        e == Encounter(docs)
    IN /\ Range(r) = Range(e)
       /\ \A i, j \in 1..Len(r) :
            i < j => r[i] # r[j] /\ FirstPos(e, r[i]) < FirstPos(e, r[j])
       /\ docs = TwoLeafWorld => r = <<PageUrls[1], PageUrls[2], PageUrls[MaxUrls]>>

\* C7 happens: discovery has run over the index of two leaves sharing a URL.
C7_Witness ==
  /\ disc.done
  /\ docs = TwoLeafWorld
  /\ Len(disc.urls) = 3
  /\ Len(Encounter(docs)) = 4

\* The sitemaps a walk from the sources in s comes to within n levels, going
\* on only through documents that are fetched and are indexes.
RECURSIVE ReachedFrom(_, _, _)
ReachedFrom(d, s, n) ==
  IF n = 0 THEN s
  ELSE ReachedFrom(d,
         s \cup UNION {Range(Fetch(d, u).locs) :
                         u \in {v \in s : Fetch(d, v).fetch = "ok" /\ Fetch(d, v).index}},
         n - 1)

\* The URLs of the leaves that can be fetched among them.
Obtainable(d) ==
  UNION {Range(Fetch(d, u).locs) :
           u \in {v \in ReachedFrom(d, Range(SITEMAPS), Cardinality(SitemapUrls)) :
                    Fetch(d, v).fetch = "ok" /\ ~Fetch(d, v).index}}

\* C20: discovery ends with a result whatever fails; a source or a nested
\* sitemap whose fetch throws or answers non-OK contributes no URL, and the
\* result holds every URL of the sources and nested sitemaps that can be
\* fetched.
C20_FailedSourcesSkipped ==
  disc.done => Range(disc.urls) = Obtainable(docs)

\* C20 happens: the first nested sitemap of the index answers non-OK, the
\* second source throws, and the result holds the URL of the other nested
\* sitemap.
C20_Witness ==
  /\ disc.done
  /\ docs["sitemap_index.xml"] = Index(<<"product-sitemap.xml", "post-sitemap.xml">>)
  /\ docs["product-sitemap.xml"] = NotOkDoc
  /\ docs["page-sitemap.xml"] = ThrowDoc
  /\ docs["post-sitemap.xml"] = Leaf(<<PageUrls[MaxUrls]>>)
  /\ disc.urls = <<PageUrls[MaxUrls]>>

\* ---------------------------------------------------------- claims: history

RECURSIVE TotalOf(_, _, _)
TotalOf(rs, field, n) == IF n = 0 THEN 0 ELSE TotalOf(rs, field, n - 1) + rs[n][field]

RECURSIVE HitRatesOf(_, _)
HitRatesOf(rs, n) ==
  IF n = 0 THEN 0 ELSE HitRatesOf(rs, n - 1) + parseFloat(rs[n].hitRate)

\* text is the mean of the hit rates of rs to two decimals, "0.00" for none.
IsMeanHitRate(text, rs) ==
  LET n == Len(rs)
      a == parseFloat(text)
      diff == a * n - HitRatesOf(rs, n)
  IN IF n = 0 THEN text = ZeroRate
     ELSE /\ a # NaN
          /\ Fixed2(a) = text
          /\ 2 * (IF diff < 0 THEN -diff ELSE diff) <= n

\* C8: the totals of a history answer are computed over the results it
\* returns: their count, the sums of their counters and the mean of their
\* hit rates to two decimals; results with success 10 and 5 and hit rates
\* "80.00" and "60.00" give totalSuccess 15 and averageHitRate "70.00".
C8_TotalsOverReturnedResults ==
  hist.done =>
    LET rs == hist.data.results
        t == hist.data.totals
        n == Len(rs)
    IN /\ t.totalExecutions = n
       /\ t.totalSuccess = TotalOf(rs, "success", n)
       /\ t.totalFailures = TotalOf(rs, "failures", n)
       /\ t.totalCacheHit = TotalOf(rs, "cacheHit", n)
       /\ t.totalCacheMiss = TotalOf(rs, "cacheMiss", n)
       /\ t.totalCacheExpired = TotalOf(rs, "cacheExpired", n)
       /\ IsMeanHitRate(t.averageHitRate, rs)
       /\ (/\ n = 2
           /\ {rs[1].success, rs[2].success} = {10, 5}
           /\ {rs[1].hitRate, rs[2].hitRate}
                = {<<"8", "0", ".", "0", "0">>, <<"6", "0", ".", "0", "0">>})
          => /\ t.totalSuccess = 15
             /\ t.averageHitRate = <<"7", "0", ".", "0", "0">>

\* C8 happens: a history answer returns the two results of the example.
C8_Witness ==
  /\ hist.done
  /\ Len(hist.data.results) = 2
  /\ hist.data.results[1].success = 5
  /\ hist.data.results[1].hitRate = <<"6", "0", ".", "0", "0">>
  /\ hist.data.results[2].success = 10
  /\ hist.data.results[2].hitRate = <<"8", "0", ".", "0", "0">>
  /\ hist.data.totals.totalSuccess = 15
  /\ hist.data.totals.averageHitRate = <<"7", "0", ".", "0", "0">>

\* C17: a history answer holds, for each region asked for, stored results of
\* that region, limit at most and each once, newest first over all regions;
\* a list that fails removes the results of its region only, a key whose
\* read or parse fails removes the result of that key only.
C17_HistoryNewestFirst ==
  hist.done =>
    LET rs == hist.data.results
        targets == IF hist.region = NoRegion THEN Range(REGIONS_KEYS)
                   ELSE {hist.region}
        KeyOf(i) == <<rs[i].region, rs[i].timestamp>>
        Stored(r) == {k \in DOMAIN kvResults : k[1] = r}
        Got(r) == {i \in 1..Len(rs) : rs[i].region = r}
        Lost(r) == {k \in hist.faults.get : k \in Stored(r)}
    IN /\ Range(hist.data.regions) = targets
       /\ \A i \in 1..Len(rs) :
            /\ rs[i].region \in targets
            /\ KeyOf(i) \in DOMAIN kvResults
            /\ rs[i] = kvResults[KeyOf(i)]
       /\ \A i, j \in 1..Len(rs) :
            i < j => rs[i].timestamp >= rs[j].timestamp /\ KeyOf(i) # KeyOf(j)
       /\ \A r \in targets :
            /\ Cardinality(Got(r)) <= hist.limit
            /\ IF r \in hist.faults.list THEN Got(r) = {}
               ELSE Cardinality(Got(r))
                      >= Min(hist.limit, Cardinality(Stored(r))) - Cardinality(Lost(r))

\* C17 happens: of two stored results of a region, the read of the older
\* one failed and the answer holds the newer one.
C17_Witness ==
  /\ hist.done
  /\ hist.limit = 2
  /\ hist.faults.get = {<<REGIONS_KEYS[1], 1>>}
  /\ {<<REGIONS_KEYS[1], 1>>, <<REGIONS_KEYS[1], 2>>} \subseteq DOMAIN kvResults
  /\ Len(hist.data.results) = 1
  /\ hist.data.results[1].timestamp = 2

\* ------------------------------------------------------------ claims: store

\* C18: after any sequence of warming runs, latest_<region> holds the
\* summary of the run stored last for the region, whether or not both writes
\* of a run succeeded.
C18_LatestIsMostRecentRun ==
  \A r \in Range(REGIONS_KEYS) : kvLatest[r] = stored.last[r]

\* C19: each stored run adds a results_ key of its own: a region has as many
\* stored results as runs were stored for it.
C19_OneKeyPerStoredRun ==
  \A r \in Range(REGIONS_KEYS) :
    Cardinality({k \in DOMAIN kvResults : k[1] = r}) = stored.count[r]

\* ----------------------------------------------------------- claims: status

\* C16: a status answer has an entry for every configured region; the entry
\* of a region whose read threw or whose summary did not parse has a null
\* snapshot, and every other entry carries that region's latest stored
\* summary and its stored offset, "0" when none is stored.
C16_StatusPerRegion ==
  stat.done =>
    /\ DOMAIN stat.data.regions = Range(REGIONS_KEYS)
    /\ \A r \in Range(REGIONS_KEYS) :
         LET e == stat.data.regions[r]
         IN IF stat.faults[r] # "none"
            THEN e.stats = NoSummary
            ELSE /\ e.stats = kvLatest[r]
                 /\ e.currentProgress
                      = IF kvProgress[r] = Null THEN <<"0">> ELSE kvProgress[r]

\* C16 happens: the read of the first region threw while the second region
\* has a stored summary and no stored offset.
C16_Witness ==
  /\ stat.done
  /\ stat.faults[REGIONS_KEYS[1]] = "get"
  /\ kvLatest[REGIONS_KEYS[1]] # NoSummary
  /\ stat.faults[REGIONS_KEYS[2]] = "none"
  /\ stat.data.regions[REGIONS_KEYS[2]].stats = kvLatest[REGIONS_KEYS[2]]
  /\ kvLatest[REGIONS_KEYS[2]] # NoSummary
  /\ kvProgress[REGIONS_KEYS[2]] = Null
  /\ stat.data.regions[REGIONS_KEYS[2]].currentProgress = <<"0">>

\* --------------------------------------------- claims: discovery, step by step

\* A walk with no document twice on the call stack: one that unwinds.
Unwinds(d) ==
  LET Below(us) ==
        us \cup UNION {Range(Fetch(d, u).locs) :
                         u \in {v \in us : Fetch(d, v).fetch = "ok" /\ Fetch(d, v).index}}
      Under(u) ==
        LET kids == IF Fetch(d, u).fetch = "ok" /\ Fetch(d, u).index
                    THEN Range(Fetch(d, u).locs) ELSE {}
        IN Below(Below(Below(Below(kids))))
  IN \A u \in SitemapUrls : u \notin Under(u)

\* The step-by-step walk ends with what getAllUrls returns.
WalkIsGetAllUrls ==
  (walk.pc = "done" /\ Unwinds(docs)) => walk.allUrls = getAllUrls(docs)

\* C21: in one discovery no sitemap document is fetched more than once.
C21_EachSitemapFetchedOnce ==
  \A u \in SitemapUrls : walk.fetches[u] <= 1

\* C28: every discovery comes to its end.
C28_DiscoveryTerminates == <>(walk.pc = "done")

\* ------------------------------------ claims: the executor's counters

\* The counter the claim gives a response of this CF-Cache-Status header
\* ("" when the header is absent).
CacheCounterOf(header) ==
  CASE header = "HIT" -> "cacheHit"
    [] header = "MISS" -> "cacheMiss"
    [] header = "EXPIRED" -> "cacheExpired"
    [] OTHER -> "cacheOther"

CacheCounters == {"cacheHit", "cacheMiss", "cacheExpired", "cacheOther"}

\* C24: every response adds one to the counter of its cache status (other
\* for a missing or unrecognised header) and leaves the other three as they
\* were, a fetch that throws leaves all four, and from the start of a run to
\* its end the four counters add up to the number of responses received.
C24_EachResponseTalliedOnce ==
  warm.pc # "idle" =>
    LET r == warm.results
        b == warm.before
    IN /\ r.cacheHit + r.cacheMiss + r.cacheExpired + r.cacheOther = warm.responses
       /\ warm.i > 0 =>
            \A c \in CacheCounters :
              r[c] = IF warm.last.fetch = "ok" /\ c = CacheCounterOf(warm.last.cacheStatus)
                     THEN b[c] + 1 ELSE b[c]

\* C24 happens: a run of two URLs has ended; one response had no cache
\* status header and its body failed to drain, the other was a hit.
C24_Witness ==
  /\ warm.pc = "done"
  /\ warm.responses = 2
  /\ warm.results.failures = 1
  /\ warm.results.cacheOther = 1
  /\ warm.results.cacheHit = 1

RECURSIVE SumOver(_, _)
SumOver(f, ks) ==
  IF ks = {} THEN 0
  ELSE LET k == CHOOSE x \in ks : TRUE IN f[k] + SumOver(f, ks \ {k})

\* C30: when a run has ended, regionMatched + regionMismatched is the number
\* of responses received, coloMatched + coloMismatched is the number of
\* responses whose header names a colo and is at most the number of
\* responses, and the counts of the location breakdown add up to
\* coloMatched + coloMismatched.
C30_LocationCountersConsistent ==
  warm.pc \in {"done", "threw"} =>
    LET r == warm.results
    IN /\ r.regionMatched + r.regionMismatched = warm.responses
       /\ r.coloMatched + r.coloMismatched = warm.known
       /\ r.coloMatched + r.coloMismatched <= warm.responses
       /\ SumOver(r.coloBreakdown, DOMAIN r.coloBreakdown)
            = r.coloMatched + r.coloMismatched

\* ------------------------------------------------ claims: the rotation cursor

\* C29: through getNextRegion calls and resets, last_region_index is absent
\* or the text of an integer in -1 .. N - 1, and every getNextRegion call
\* returns a label of the rotation order.
C29_CursorAndRegionInRange ==
  /\ \/ kvIndex = Null
     \/ \E i \in -1..(Len(regionKeys) - 1) : kvIndex = String(i)
  /\ gnr.op = "next" => (~gnr.raised /\ gnr.region \in Range(regionKeys))

\* C29 happens: a call at the cursor of the last region wraps to the first.
C29_Witness ==
  /\ gnr.op = "next" /\ gnr.ok
  /\ gnr.before = String(Len(regionKeys) - 1)
  /\ gnr.region = regionKeys[1]
  /\ kvIndex = <<"0">>

\* -------------------------------------- claims: scheduled, await by await

\* C22: while a scheduled run is under way, and after it has failed or has
\* been ended from outside, every progress_<region> is as it was when the
\* run began; so it is after a dispatch that failed or an executor that
\* reported an error.  A run that has ended well has written the new offset
\* of its own region and no other.
C22_OffsetWrittenAfterSuccess ==
  \A p \in Invocations :
    LET inv == proc[p]
    IN /\ inv.pc \in Running \cup {"raised", "crashed"} => kvProgress = inv.before
       /\ inv.error \in {"dispatch", "doError"} => kvProgress = inv.before
       /\ inv.pc = "done" =>
            kvProgress = [inv.before EXCEPT ![inv.region] = String(inv.newIndex)]

\* C22 happens: a run whose executor reported an error has left the offset
\* its region had reached, "1", where success would have written another.
C22_Witness ==
  /\ proc["first"].pc = "raised"
  /\ proc["first"].error = "doError"
  /\ proc["first"].lastIndex = 1
  /\ proc["first"].endIndex # 1
  /\ kvProgress[proc["first"].region] = <<"1">>

\* C27: for runs that do not overlap over an unchanging catalog, whichever
\* of them fail or are ended from outside: the URLs before the persisted
\* offset of a region have all been requested for it since its offset was
\* last 0, and when the offset wraps to 0 every URL of the catalog has been.
C27_NoRangeSkipped ==
  LET C == Catalogs[docs]
  IN IF cover.wrapped
     THEN Range(C) \subseteq cover.requested /\ kvProgress[watch] = <<"0">>
     ELSE \/ kvProgress[watch] = Null
          \/ /\ parseInt(kvProgress[watch]) \in 0..Len(C)
             /\ Range(SubSeq(C, 1, parseInt(kvProgress[watch])))
                  \subseteq cover.requested

\* C27 happens: a cycle of pages of two has wrapped after a run of it failed
\* and its URLs were requested again.
C27_Witness ==
  /\ cover.wrapped
  /\ cover.again
  /\ pageSize = 2
  /\ cover.requested = Range(Catalogs[docs])
  /\ Len(Catalogs[docs]) = MaxUrls

\* The offset one page after lastIndex, 0 at the end of the catalog.
OnePageAfter(lastIndex) ==
  LET e == Min(lastIndex + pageSize, Len(Catalogs[docs]))
  IN IF e >= Len(Catalogs[docs]) THEN 0 ELSE e

HasSlice(inv) ==
  \/ inv.pc \in {"dispatch", "putProgress", "done"}
  \/ inv.pc = "raised" /\ inv.error # "progressGet"

\* C23: two overlapping runs that read the same rotation cursor are given
\* the same region and write the same cursor; if they also read the same
\* offset they warm the same slice, and when both have ended the offset and
\* the cursor stand one step after what they read, not two.
C23_RacingRunsShareCursors ==
  \A p, q \in Invocations :
    LET a == proc[p]
        b == proc[q]
    IN (/\ p # q
        /\ a.indexFault = "none" /\ a.region # Undefined
        /\ b.indexFault = "none" /\ b.region # Undefined
        /\ a.lastIndexValue = b.lastIndexValue) =>
         /\ a.region = b.region
         /\ kvIndex = String(JsMod((IF a.lastIndexValue = Null THEN -1
                                    ELSE parseInt(a.lastIndexValue)) + 1,
                                   Len(regionKeys)))
         /\ (HasSlice(a) /\ HasSlice(b) /\ a.progressStr = b.progressStr) =>
              /\ a.urlsToWarm = b.urlsToWarm
              /\ a.urlsToWarm
                   = JsSlice(Catalogs[docs], a.lastIndex, a.lastIndex + pageSize)
              /\ (a.pc = "done" /\ b.pc = "done") =>
                   kvProgress[a.region] = String(OnePageAfter(a.lastIndex))

\* C23 happens (the lost update): both runs read an absent cursor and an
\* absent offset, both warmed the first page for the first region, and after
\* both the offset is "1" and the cursor "0".
C23_Witness ==
  /\ proc["first"].pc = "done" /\ proc["second"].pc = "done"
  /\ proc["first"].indexFault = "none" /\ proc["second"].indexFault = "none"
  /\ proc["first"].lastIndexValue = Null /\ proc["second"].lastIndexValue = Null
  /\ proc["first"].region = regionKeys[1] /\ proc["second"].region = regionKeys[1]
  /\ proc["first"].progressStr = Null /\ proc["second"].progressStr = Null
  /\ proc["first"].urlsToWarm = <<PageUrls[1]>>
  /\ proc["second"].urlsToWarm = <<PageUrls[1]>>
  /\ pageSize = 1
  /\ kvProgress[regionKeys[1]] = <<"1">>
  /\ kvIndex = <<"0">>

\* The summary the store holds for the run the Durable Object has ended.
StoredRun(region) ==
  \E key \in DOMAIN kvResults :
    /\ key[1] = region
    /\ kvResults[key] = summaryOf(region, warm.results, key[2])
    /\ kvLatest[region] = kvResults[key]

\* C26: when callRegionalDO has returned to scheduled, and so whenever the
\* offset of the region has been advanced, the summary of the run is in the
\* store under its results_ key and under latest_<region>; and when a put of
\* storeResults has failed, callRegionalDO does not return and the offset
\* stays as it was.
C26_StoredBeforeSuccess ==
  \A p \in Invocations :
    LET inv == proc[p]
    IN inv.pc # "idle" =>
         /\ inv.pc \in {"putProgress", "done"} =>
              warm.pc = "done" /\ StoredRun(inv.region)
         /\ kvProgress # inv.before => StoredRun(inv.region)
         /\ warm.pc = "threw" =>
              inv.pc \in {"awaitDO", "raised"} /\ kvProgress = inv.before

\* C26 happens: a run of two URLs from offset "1" has been stored and its
\* caller has wrapped the offset.
C26_Witness ==
  /\ proc["first"].pc = "done"
  /\ proc["first"].lastIndex = 1
  /\ Len(req.urls) = 2
  /\ warm.pc = "done"
  /\ StoredRun(proc["first"].region)
  /\ kvProgress[proc["first"].region] = <<"0">>

\* ------------------------------------- claims: the executor's loop, in time

\* C25: within a run at most one request is in flight at any time, and every
\* request but the first is issued when none is in flight, after the request
\* before it has completed or failed and at least rateLimitMs has passed
\* since.
C25_RequestsSequentialAndPaced ==
  /\ Cardinality(pace.inFlight) <= 1
  /\ \A k \in 1 .. Len(pace.log) :
       LET e == pace.log[k]
       IN /\ e.url = k
          /\ e.busy = 0
          /\ k > 1 =>
               /\ e.prev \in {"completed", "failed"}
               /\ e.waited >= pace.rateLimitMs

\* C25's case: a run of two URLs with a delay of two ticks, whose first
\* request failed and whose second was issued and completed.
C25_Witness ==
  /\ pace.pc = "done"
  /\ pace.n = 2
  /\ pace.rateLimitMs = 2
  /\ Len(pace.log) = 2
  /\ pace.log[2].prev = "failed"
  /\ pace.log[2].waited = 2
  /\ pace.last = "completed"

====
